---- MODULE Spec2Model ----
(***************************************************************************)
(* Verification model of the GitLab Handbook RAG chatbot:                  *)
(*   - the link-discovery crawler        (src/src/scraper.py)              *)
(*   - the section extractor             (src/src/scraper.py)              *)
(*   - the offset-preserving re-chunker  (src/src/vector_store.py)         *)
(*   - the load-once index ingestion     (src/src/vector_store.py)         *)
(*   - the question-answering pipeline   (src/src/chatbot.py)              *)
(* Each component has its own specification over the shared variables; the *)
(* variables of the other components stay at their initial values.         *)
(***************************************************************************)
EXTENDS Integers, Sequences, FiniteSets, TLC

VARIABLES
    \* ---- crawler (GitLabScraper) ----
    max_depth,      \* self.max_depth
    max_pages,      \* self.max_pages
    base_domain,    \* argument of find_all_pages
    visited_urls,   \* self.visited_urls
    stack,          \* call stack of crawl_recursive, innermost frame last
    all_urls,       \* value returned by the outermost crawl_recursive
    crawl_pc,       \* "idle" | "running" | "done"
    runs,           \* number of find_all_pages calls started
    fetch_log,      \* history: every session.get attempt of the current run
    relinked,       \* history: URLs whose link occurrence was dropped by dedup
    dropped,        \* history: frontier URLs left unfetched by budget / depth
    \* ---- section extractor ----
    page,           \* the parsed page handed to extract_sections
    sections,       \* the list extract_sections returned
    ext_pc,         \* "parsed" | "done"
    closeouts,      \* history: the non-empty accumulations the walk closed out
    \* ---- re-chunker ----
    split_in,       \* the sections handed to the re-chunker
    split_docs,     \* the documents _split_with_metadata_preservation returned
    split_pc,       \* "loaded" | "done"
    \* ---- index ingestion (VectorStore) ----
    corpus,         \* the file data/gitlab_chunks.json
    index_docs,     \* the documents stored in the Chroma collection
    add_calls,      \* number of vector_store.add_documents invocations
    idx_pc,         \* "idle" | "adding" (inside the batch loop)
    pending,        \* the local list `documents` of a running add_chunks
    batch_pos,      \* the loop variable i of the batch loop
    ingest_calls,   \* number of add_chunks / initialize calls started
    last_outcome,   \* history: how the latest call went
    reported,       \* history: existing_count read by the latest call
    idx_before,     \* history: index_docs when the latest call started
    calls_before,   \* history: add_calls when the latest call started
    entry,          \* history: the method the latest call entered by
    run_docs,       \* history: the list `documents` the latest call set out to insert
    \* ---- question answering (Chatbot over a VectorStore) ----
    collection,            \* the documents of the Chroma collection the chatbot reads
    conversation_history,  \* self.conversation_history
    chat_pc,               \* position inside generate_response, "Idle" between calls
    query,                 \* argument of the running / latest call
    include_history,       \* argument of the running / latest call
    max_context_chunks,    \* argument of the running / latest call
    ranking,               \* the collection ordered by distance to the query
    search_results,        \* local of generate_response (line 181)
    context_used,          \* local of generate_response (line 182)
    source_documents,      \* local of generate_response (line 188)
    result,                \* the dict the latest call returned
    chat_calls,            \* number of generate_response calls started
    outcome,               \* history: how the latest call ended
    guard,                 \* history: what check_query_appropriateness returned
    store_queries,         \* history: similarity queries sent to the store by the latest call
    llm_calls,             \* history: llm.invoke calls made by the latest call
    prompt,                \* history: the variables of the prompt given to llm.invoke
    generated,             \* history: the text llm.invoke returned
    history_before,        \* history: conversation_history when the latest call started
    answered               \* history: calls that ended Answered since the last clear_history

crawl_vars == <<max_depth, max_pages, base_domain, visited_urls, stack,
                all_urls, crawl_pc, runs, fetch_log, relinked, dropped>>
ext_vars == <<page, sections, ext_pc, closeouts>>
split_vars == <<split_in, split_docs, split_pc>>
index_vars == <<corpus, index_docs, add_calls, idx_pc, pending, batch_pos,
                ingest_calls, last_outcome, reported, idx_before, calls_before,
                entry, run_docs>>
chat_vars == <<collection, conversation_history, chat_pc, query, include_history,
               max_context_chunks, ranking, search_results, context_used,
               source_documents, result, chat_calls, outcome, guard, store_queries,
               llm_calls, prompt, generated, history_before, answered>>

(***************************************************************************)
(* Bounds of the model.                                                    *)
(***************************************************************************)
MaxDepthBound == 2
MaxPagesBound == 4
MaxLinks == 2
MaxRuns == 2

(***************************************************************************)
(* URLs.  A URL is a sequence of tokens: a host token (standing for        *)
(* "https://" + host), the separators "/" and "#", and path segments.      *)
(***************************************************************************)
HB == "handbook.gitlab.com"
AB == "about.gitlab.com"
Hosts == {HB, AB}

BASE_URLS == [handbook |-> <<HB>>, direction |-> <<AB, "/", "direction">>]

\* The hrefs a fetched page may carry (the <a href> values of the markup).
Hrefs ==
    { <<"/", "a", "/">>,                     \* root-relative, trailing slash
      <<HB, "/", "b", "#", "s">>,            \* absolute, with a fragment
      <<"b">>,                               \* relative to the current page
      <<"/", "#", "top">>,                   \* the root of the host
      <<AB, "/", "direction", "/", "a">>,    \* absolute, a direction page
      <<HB, "/", "x.pdf">> }                 \* binary asset

RECURSIVE SeqsUpTo(_, _)
SeqsUpTo(S, n) ==
    IF n = 0 THEN {<<>>}
    ELSE LET shorter == SeqsUpTo(S, n - 1)
         IN  shorter \cup {Append(s, x) : s \in {t \in shorter : Len(t) = n - 1}, x \in S}

LinkLists == SeqsUpTo(Hrefs, MaxLinks)

Range(s) == {s[i] : i \in DOMAIN s}

NoDuplicates(s) == \A i, j \in DOMAIN s : i # j => s[i] # s[j]

\* full_url.split('#')[0]
SplitHash(u) ==
    IF \E i \in DOMAIN u : u[i] = "#"
    THEN SubSeq(u, 1, (CHOOSE i \in DOMAIN u : u[i] = "#" /\ \A j \in 1..(i - 1) : u[j] # "#") - 1)
    ELSE u

\* .rstrip('/')
RECURSIVE RStripSlash(_)
RStripSlash(u) ==
    IF u # <<>> /\ u[Len(u)] = "/" THEN RStripSlash(SubSeq(u, 1, Len(u) - 1)) ELSE u

Normalize(u) == RStripSlash(SplitHash(u))

\* urljoin(base, href) for href without scheme: "/..." replaces the whole
\* path of base, "#..." is appended to base, anything else replaces the
\* last path segment of base.
LastSlash(u) ==
    IF \E i \in DOMAIN u : u[i] = "/"
    THEN CHOOSE i \in DOMAIN u : u[i] = "/" /\ \A j \in (i + 1)..Len(u) : u[j] # "/"
    ELSE 0

UrlJoin(base, href) ==
    IF href = <<>> THEN base
    ELSE IF href[1] = "/" THEN <<base[1]>> \o href
    ELSE IF href[1] = "#" THEN base \o href
    ELSE IF LastSlash(base) = 0 THEN base \o <<"/">> \o href
    ELSE SubSeq(base, 1, LastSlash(base)) \o href

\* Lines 194-200 of extract_links.
Resolve(href, current_url, domain) ==
    IF href # <<>> /\ href[1] = "/" THEN UrlJoin(BASE_URLS[domain], href)
    ELSE IF href # <<>> /\ href[1] \in Hosts THEN href
    ELSE UrlJoin(current_url, href)

SkipTokens == {"x.pdf", "#"}

is_valid_url(url, domain) ==
    /\ url # <<>>
    /\ url[1] \in Hosts
    /\ domain = "handbook" => url[1] = HB
    /\ domain = "direction" => url[1] = AB /\ "direction" \in Range(SubSeq(url, 2, Len(url)))
    /\ \A i \in DOMAIN url : url[i] \notin SkipTokens

\* The normalised, validated candidates of a page, in markup order (before
\* the visited filter of line 207).
RECURSIVE Candidates(_, _, _)
Candidates(hrefs, current_url, domain) ==
    IF hrefs = <<>> THEN <<>>
    ELSE LET full_url == Normalize(Resolve(Head(hrefs), current_url, domain))
             rest == Candidates(Tail(hrefs), current_url, domain)
         IN  IF is_valid_url(full_url, domain) THEN <<full_url>> \o rest ELSE rest

RECURSIVE FilterNotIn(_, _)
FilterNotIn(s, S) ==
    IF s = <<>> THEN <<>>
    ELSE IF Head(s) \in S THEN FilterNotIn(Tail(s), S)
    ELSE <<Head(s)>> \o FilterNotIn(Tail(s), S)

extract_links(hrefs, current_url, domain, visited) ==
    FilterNotIn(Candidates(hrefs, current_url, domain), visited)

\* Lines 249-251: append the found links that are neither visited nor
\* already queued for the next level.
RECURSIVE AddNextLevel(_, _, _)
AddNextLevel(next_level_urls, found_links, visited) ==
    IF found_links = <<>> THEN next_level_urls
    ELSE LET link == Head(found_links)
             nl == IF link \notin visited /\ link \notin Range(next_level_urls)
                   THEN Append(next_level_urls, link) ELSE next_level_urls
         IN  AddNextLevel(nl, Tail(found_links), visited)

MarkVisitedNoAdd(visited, url) == visited

\* Line 245.
MarkVisited(visited, url) == visited \cup {url}

BudgetExhaustedStrict(visited) == Cardinality(visited) > max_pages

\* Lines 217, 227, 260: the page budget test.
BudgetExhausted(visited) == Cardinality(visited) >= max_pages

\* Line 217: the depth test at function entry.
TooDeep(depth) == depth > max_depth

NextDepthSame(depth) == depth

\* Line 261: the depth passed to the recursive call.
NextDepth(depth) == depth + 1

AfterFailureBreak(f) == [f EXCEPT !.i = Len(f.start_urls) + 1]

\* Line 257: a failed URL is skipped, the loop goes on with the next one.
AfterFailure(f) == [f EXCEPT !.i = @ + 1]

NewFrame(start_urls, depth) ==
    [start_urls |-> start_urls, i |-> 1, urls_to_scrape |-> <<>>,
     next_level_urls |-> <<>>, depth |-> depth, returning |-> FALSE]

ExtendInFront(urls_to_scrape, deeper_urls) == deeper_urls \o urls_to_scrape

\* Line 262: urls_to_scrape.extend(deeper_urls).
Extend(urls_to_scrape, deeper_urls) == urls_to_scrape \o deeper_urls

Top == stack[Len(stack)]
SetTop(f) == [stack EXCEPT ![Len(stack)] = f]
InLoop == crawl_pc = "running" /\ stack # <<>> /\ ~Top.returning /\ Top.i <= Len(Top.start_urls)
CurUrl == Top.start_urls[Top.i]
Level == Len(stack) - 1

(***************************************************************************)
(* Crawler actions.                                                        *)
(***************************************************************************)
\* find_all_pages: reset the tracking state and call crawl_recursive on the
\* base URL; the call returns [] at once when the entry test of line 217
\* fails.
FindAllPages(domain) ==
    /\ UNCHANGED <<ext_vars, split_vars, index_vars, chat_vars>>
    /\ crawl_pc \in {"idle", "done"}
    /\ runs < MaxRuns
    /\ runs' = runs + 1
    /\ base_domain' = domain
    /\ visited_urls' = {}
    /\ fetch_log' = <<>>
    /\ relinked' = {}
    /\ dropped' = {}
    /\ IF TooDeep(0) \/ BudgetExhausted({})
       THEN /\ stack' = <<>>
            /\ all_urls' = <<>>
            /\ crawl_pc' = "done"
       ELSE /\ stack' = <<NewFrame(<<BASE_URLS[domain]>>, 0)>>
            /\ all_urls' = <<>>
            /\ crawl_pc' = "running"
    /\ UNCHANGED <<max_depth, max_pages>>

\* Lines 224-225.
SkipVisited ==
    /\ UNCHANGED <<ext_vars, split_vars, index_vars, chat_vars>>
    /\ InLoop
    /\ CurUrl \in visited_urls
    /\ stack' = SetTop([Top EXCEPT !.i = @ + 1])
    /\ UNCHANGED <<max_depth, max_pages, base_domain, visited_urls, all_urls,
                   crawl_pc, runs, fetch_log, relinked, dropped>>

\* Lines 227-228.
BudgetBreak ==
    /\ UNCHANGED <<ext_vars, split_vars, index_vars, chat_vars>>
    /\ InLoop
    /\ CurUrl \notin visited_urls
    /\ BudgetExhausted(visited_urls)
    /\ stack' = SetTop([Top EXCEPT !.i = Len(Top.start_urls) + 1])
    /\ dropped' = dropped \cup
          {Top.start_urls[k] : k \in Top.i..Len(Top.start_urls)}
    /\ UNCHANGED <<max_depth, max_pages, base_domain, visited_urls, all_urls,
                   crawl_pc, runs, fetch_log, relinked>>

\* Lines 230-253: the page is fetched and parsed, its links are extracted.
FetchOk(hrefs) ==
    /\ UNCHANGED <<ext_vars, split_vars, index_vars, chat_vars>>
    /\ InLoop
    /\ CurUrl \notin visited_urls
    /\ ~BudgetExhausted(visited_urls)
    /\ LET url == CurUrl
           cands == Candidates(hrefs, url, base_domain)
           found_links == extract_links(hrefs, url, base_domain, visited_urls)
           visited == MarkVisited(visited_urls, url)
           next_level == AddNextLevel(Top.next_level_urls, found_links, visited)
       IN  /\ visited_urls' = visited
           /\ stack' = SetTop([Top EXCEPT !.i = @ + 1,
                                          !.urls_to_scrape = Append(@, url),
                                          !.next_level_urls = next_level])
           /\ fetch_log' = Append(fetch_log,
                 [url |-> url, depth |-> Level, ok |-> TRUE,
                  nvisited |-> Cardinality(visited_urls)])
           /\ relinked' = relinked \cup
                 {c \in Range(cands) :
                     \/ c \in visited
                     \/ c \in Range(Top.next_level_urls)
                     \/ \E p, q \in DOMAIN cands : p # q /\ cands[p] = c /\ cands[q] = c}
    /\ UNCHANGED <<max_depth, max_pages, base_domain, all_urls, crawl_pc, runs, dropped>>

\* Lines 255-257: any exception of the fetch, the parse or the link
\* extraction; nothing was recorded for the URL.
FetchFail ==
    /\ UNCHANGED <<ext_vars, split_vars, index_vars, chat_vars>>
    /\ InLoop
    /\ CurUrl \notin visited_urls
    /\ ~BudgetExhausted(visited_urls)
    /\ stack' = SetTop(AfterFailure(Top))
    /\ fetch_log' = Append(fetch_log,
          [url |-> CurUrl, depth |-> Level, ok |-> FALSE,
           nvisited |-> Cardinality(visited_urls)])
    /\ UNCHANGED <<max_depth, max_pages, base_domain, visited_urls, all_urls,
                   crawl_pc, runs, relinked, dropped>>

LoopDone == crawl_pc = "running" /\ stack # <<>> /\ ~Top.returning /\ Top.i > Len(Top.start_urls)

WillRecurse ==
    /\ Top.next_level_urls # <<>>
    /\ Top.depth < max_depth
    /\ ~BudgetExhausted(visited_urls)

\* Lines 260-261: the recursive call (its entry test at line 217 included).
Recurse ==
    /\ UNCHANGED <<ext_vars, split_vars, index_vars, chat_vars>>
    /\ LoopDone
    /\ WillRecurse
    /\ IF TooDeep(NextDepth(Top.depth)) \/ BudgetExhausted(visited_urls)
       THEN stack' = SetTop([Top EXCEPT !.returning = TRUE])
       ELSE stack' = Append(stack, NewFrame(Top.next_level_urls, NextDepth(Top.depth)))
    /\ UNCHANGED <<max_depth, max_pages, base_domain, visited_urls, all_urls,
                   crawl_pc, runs, fetch_log, relinked, dropped>>

\* Lines 262-264: return urls_to_scrape; the caller extends its own list
\* with it and returns in turn.
Return ==
    /\ UNCHANGED <<ext_vars, split_vars, index_vars, chat_vars>>
    /\ crawl_pc = "running" /\ stack # <<>>
    /\ Top.returning \/ (LoopDone /\ ~WillRecurse)
    /\ dropped' = IF Top.returning THEN dropped
                  ELSE dropped \cup (Range(Top.next_level_urls) \ visited_urls)
    /\ IF Len(stack) = 1
       THEN /\ all_urls' = Top.urls_to_scrape
            /\ stack' = <<>>
            /\ crawl_pc' = "done"
       ELSE LET caller == stack[Len(stack) - 1]
            IN  /\ stack' = Append(SubSeq(stack, 1, Len(stack) - 2),
                                   [caller EXCEPT !.urls_to_scrape =
                                                      Extend(@, Top.urls_to_scrape),
                                                  !.returning = TRUE])
                /\ UNCHANGED <<all_urls, crawl_pc>>
    /\ UNCHANGED <<max_depth, max_pages, base_domain, visited_urls, runs,
                   fetch_log, relinked>>

CrawlStep ==
    \/ SkipVisited
    \/ BudgetBreak
    \/ \E hrefs \in LinkLists : FetchOk(hrefs)
    \/ FetchFail
    \/ Recurse
    \/ Return

(***************************************************************************)
(* Section extractor (GitLabScraper.extract_sections).                     *)
(* Markup text is a sequence of tokens: words and whitespace characters.   *)
(* A page is the sequence of elements find_all returns in document order,  *)
(* each with its tag name, its text and whether it lies under a            *)
(* nav/header/footer/aside ancestor, plus text of the content root that    *)
(* belongs to none of these elements.                                      *)
(***************************************************************************)
MaxElements == 4

MinTextLen == 10
MinSectionLen == 50

Whitespace == {" ", "\n", "\t"}
HeadingTags == {"h1", "h2", "h3", "h4", "h5", "h6"}

RawT9 == <<"too", " ", "short">>
RawT10 == <<"\n", "ten", " ", "\t", "chars.", " ">>
RawT24 == <<"All-", "remote", " ", "work,", "\n", "GitLab.">>
RawT25 == <<"Teams", " ", "document", " ", " ", "all", "\n", "things">>
RawT51 == <<"GitLab", " ", "values", " ", "are", " ", "collaboration,", " ",
            "results", " ", "and", "\n", "speed.">>
RawHLong == <<"Remote", " ", "Work", "\n", " ", "Policy">>
RawHShort == <<"Values">>
RawLoose == <<"Edit", " ", "this", " ", "page", " ", "on", " ", "GitLab", " ", "to", " ",
              "improve", " ", "the", " ", "handbook", " ", "text.">>

ElementKinds ==
    { [name |-> "h2",  raw |-> RawHLong,  in_nav |-> FALSE],
      [name |-> "h3",  raw |-> RawHShort, in_nav |-> FALSE],
      [name |-> "p",   raw |-> RawT9,     in_nav |-> FALSE],
      [name |-> "p",   raw |-> RawT10,    in_nav |-> FALSE],
      [name |-> "li",  raw |-> RawT24,    in_nav |-> FALSE],
      [name |-> "p",   raw |-> RawT25,    in_nav |-> FALSE],
      [name |-> "div", raw |-> RawT51,    in_nav |-> FALSE],
      [name |-> "p",   raw |-> RawT51,    in_nav |-> TRUE] }

PageInputs ==
    [elements : SeqsUpTo(ElementKinds, MaxElements), loose : {<<>>, RawLoose}]

PageUrl == <<HB, "/", "a">>

\* clean_text: re.sub(r'\s+', ' ', text).strip()
RECURSIVE CleanFrom(_, _, _)
CleanFrom(raw, out, gap) ==
    IF raw = <<>> THEN out
    ELSE IF Head(raw) \in Whitespace THEN CleanFrom(Tail(raw), out, TRUE)
    ELSE CleanFrom(Tail(raw),
                   IF out = "" THEN Head(raw)
                   ELSE IF gap THEN out \o " " \o Head(raw)
                   ELSE out \o Head(raw),
                   FALSE)

clean_text(raw) == CleanFrom(raw, "", FALSE)

\* ' '.join(list)
RECURSIVE JoinSpace(_)
JoinSpace(parts) ==
    IF parts = <<>> THEN ""
    ELSE IF Len(parts) = 1 THEN parts[1]
    ELSE parts[1] \o " " \o JoinSpace(Tail(parts))

\* get_text() of the content root: the text nodes in document order, with
\* the line break the markup has between block elements.
RECURSIVE RootText(_)
RootText(elements) ==
    IF elements = <<>> THEN <<>>
    ELSE Head(elements).raw \o <<"\n">> \o RootText(Tail(elements))

SectionEndOffByOne(char_offset, section_text) == char_offset + Len(section_text) + 1

\* Lines 81 and 104.
SectionEnd(char_offset, section_text) == char_offset + Len(section_text)

LongEnoughInclusive(section_text) == Len(section_text) >= MinSectionLen

\* Lines 79, 102 and 117: the minimum size of an emitted section.
LongEnough(section_text) == Len(section_text) > MinSectionLen

\* Lines 77-90 and 100-112: emit the open section if it has content of
\* sufficient length.  The offset advances only at a heading (line 90).
\* closed records every non-empty accumulation with the positions of the
\* elements whose text it holds.
CloseSection(st, url, advance) ==
    IF st.content = <<>> THEN st
    ELSE LET section_text == JoinSpace(st.content)
             start_char == st.char_offset
             end_char == SectionEnd(st.char_offset, section_text)
             logged == [st EXCEPT !.closed = Append(@, [title |-> st.title,
                                                        text |-> section_text,
                                                        members |-> st.members])]
         IN  IF LongEnough(section_text)
             THEN [logged EXCEPT !.chunks = Append(@, [source_url |-> url,
                                                       section_title |-> st.title,
                                                       start_char |-> start_char,
                                                       end_char |-> end_char,
                                                       content |-> section_text]),
                                 !.char_offset = IF advance THEN end_char ELSE @]
             ELSE logged

\* Line 71: if not text or len(text) < 10: continue.
Skipped(text) == text = "" \/ Len(text) < MinTextLen

\* Lines 65-97: the walk over the elements.  pos counts the elements seen.
RECURSIVE Walk(_, _, _)
Walk(elements, url, st) ==
    IF elements = <<>> THEN st
    ELSE LET element == Head(elements)
             text == clean_text(element.raw)
             at == [st EXCEPT !.pos = @ + 1]
         IN  IF element.in_nav THEN Walk(Tail(elements), url, at)
             ELSE IF Skipped(text) THEN Walk(Tail(elements), url, at)
             ELSE IF element.name \in HeadingTags
             THEN Walk(Tail(elements), url,
                       [CloseSection(at, url, TRUE) EXCEPT !.title = text,
                                                           !.content = <<>>,
                                                           !.members = {}])
             ELSE Walk(Tail(elements), url,
                       [at EXCEPT !.content = Append(@, text),
                                  !.members = @ \cup {at.pos}])

\* Lines 61-63 and 99-112: the walk from its initial state, and the close
\* of the last section.
Walked(pg, url) ==
    CloseSection(Walk(pg.elements, url,
                      [chunks |-> <<>>, title |-> "Introduction",
                       content |-> <<>>, char_offset |-> 0,
                       pos |-> 0, members |-> {}, closed |-> <<>>]),
                 url, FALSE)

WalkedChunks(pg, url) == Walked(pg, url).chunks

MainContentUntitled(url, all_text) ==
    [source_url |-> url, section_title |-> "Introduction",
     start_char |-> 0, end_char |-> Len(all_text), content |-> all_text]

\* Lines 118-124.
MainContent(url, all_text) ==
    [source_url |-> url, section_title |-> "Main Content",
     start_char |-> 0, end_char |-> Len(all_text), content |-> all_text]

\* Lines 114-124: the fallback when the walk emitted nothing.
extract_sections(pg, url) ==
    LET chunks == WalkedChunks(pg, url)
        all_text == clean_text(RootText(pg.elements) \o pg.loose)
    IN  IF chunks # <<>> THEN chunks
        ELSE IF LongEnough(all_text)
        THEN <<MainContent(url, all_text)>>
        ELSE <<>>

\* scrape_page, lines 145-148: one page is parsed and its sections extracted.
ExtractPage ==
    /\ UNCHANGED <<crawl_vars, split_vars, index_vars, chat_vars>>
    /\ ext_pc = "parsed"
    /\ sections' = extract_sections(page, PageUrl)
    /\ closeouts' = Walked(page, PageUrl).closed
    /\ ext_pc' = "done"
    /\ UNCHANGED page

(***************************************************************************)
(* Re-chunker (VectorStore._split_with_metadata_preservation).             *)
(* A section's content is given with the pieces ("segs") the text splitter *)
(* cuts it into at its separator, each with the token count the length     *)
(* function reports for it; the content is the pieces joined by the        *)
(* separator.                                                              *)
(***************************************************************************)
MaxSegments == 3

chunk_size == 300
chunk_overlap == 50

\* n copies of the word w separated by single spaces.
RECURSIVE Rep(_, _)
Rep(w, n) ==
    IF n = 0 THEN ""
    ELSE IF n = 1 THEN w
    ELSE LET half == Rep(w, n \div 2)
         IN  IF n % 2 = 0 THEN half \o " " \o half ELSE half \o " " \o half \o " " \o w

SegTiny == [text |-> "See below", tokens |-> 2]
SegMid == [text |-> Rep("handbook", 20), tokens |-> 40]
SegBig == [text |-> Rep("handbook", 125), tokens |-> 250]
SegHuge == [text |-> Rep("handbook", 149), tokens |-> 299]
SegKinds == {SegTiny, SegMid, SegBig, SegHuge}

RECURSIVE Join(_, _)
Join(parts, sep) ==
    IF parts = <<>> THEN ""
    ELSE IF Len(parts) = 1 THEN parts[1]
    ELSE parts[1] \o sep \o Join(Tail(parts), sep)

Texts(segs) == [k \in DOMAIN segs |-> segs[k].text]

MakeSection(url, title, start_char, segs, sep) ==
    LET content == Join(Texts(segs), sep)
    IN  [source_url |-> url, section_title |-> title,
         start_char |-> start_char, end_char |-> start_char + Len(content),
         content |-> content, segs |-> segs, sep |-> sep]

\* The scenario of the specification's section 8.
RemoteWork ==
    MakeSection(<<HB, "/", "remote">>, "Remote Work", 0,
                <<[text |-> "GitLab", tokens |-> 2], [text |-> "is", tokens |-> 1],
                  [text |-> "an", tokens |-> 1], [text |-> "all-remote", tokens |-> 3],
                  [text |-> "company.", tokens |-> 2]>>, " ")

StartChars == {0, 120}

SectionInputs ==
    {RemoteWork} \cup
    {MakeSection(PageUrl, "Remote Work Policy", sc, segs, ". ") :
        sc \in StartChars, segs \in SeqsUpTo(SegKinds, MaxSegments) \ {<<>>}}

\* A short sentence followed by one that fills a chunk on its own.
TinyHuge == MakeSection(PageUrl, "Remote Work Policy", 0, <<SegTiny, SegHuge>>, ". ")

\* The section lists handed to the re-chunker: one section, or one section
\* followed by a second one.
SplitInputs ==
    {<<>>} \cup {<<a>> : a \in SectionInputs}
    \cup {<<a, b>> : a \in SectionInputs, b \in {RemoteWork, TinyHuge}}

\* _create_langchain_documents, lines 85-97.
create_langchain_documents(chunks) ==
    [k \in DOMAIN chunks |->
        [page_content |-> chunks[k].content,
         segs |-> chunks[k].segs, sep |-> chunks[k].sep,
         metadata |-> [source_url |-> chunks[k].source_url,
                       section_title |-> chunks[k].section_title,
                       start_char |-> chunks[k].start_char,
                       end_char |-> chunks[k].end_char,
                       original_content |-> chunks[k].content]]]

\* _count_tokens summed over the pieces of a text.
RECURSIVE TokenSum(_)
TokenSum(segs) == IF segs = <<>> THEN 0 ELSE Head(segs).tokens + TokenSum(Tail(segs))

\* The splitter's merge loop drops pieces from the front of the window
\* until at most chunk_overlap tokens are kept and the next piece fits.
RECURSIVE PopFront(_, _, _, _)
PopFront(segs, from, total, len) ==
    IF total > chunk_overlap \/ (total + len > chunk_size /\ total > 0)
    THEN PopFront(segs, from + 1, total - segs[from].tokens, len)
    ELSE [from |-> from, total |-> total]

\* The splitter's merge of the pieces into chunks of at most chunk_size
\* tokens: the result is the list of piece ranges [from, to], one per chunk.
RECURSIVE MergeSplits(_, _, _, _, _)
MergeSplits(segs, k, from, total, ranges) ==
    IF k > Len(segs)
    THEN IF from <= Len(segs) THEN Append(ranges, [from |-> from, to |-> Len(segs)]) ELSE ranges
    ELSE LET len == segs[k].tokens
         IN  IF total + len > chunk_size /\ from < k
             THEN LET popped == PopFront(segs, from, total, len)
                  IN  MergeSplits(segs, k + 1, popped.from, popped.total + len,
                                  Append(ranges, [from |-> from, to |-> k - 1]))
             ELSE MergeSplits(segs, k + 1, from, total + len, ranges)

SplitRanges(doc) == MergeSplits(doc.segs, 1, 1, 0, <<>>)

\* text_splitter.split_text(doc.page_content), line 107.
split_text(doc) ==
    LET ranges == SplitRanges(doc)
    IN  [i \in DOMAIN ranges |->
            Join(Texts(SubSeq(doc.segs, ranges[i].from, ranges[i].to)), doc.sep)]

SplitEndPlusOne(current_char, split_length) == current_char + split_length + 1

\* Line 115.
SplitEnd(current_char, split_length) == current_char + split_length

\* Lines 134-135.
NextChar(split_end) == split_end - chunk_overlap

\* Lines 110-135: the offsets of the splits of one document.
RECURSIVE OffsetSplits(_, _, _, _)
OffsetSplits(doc, splits, i, current_char) ==
    IF i > Len(splits) THEN <<>>
    ELSE LET split_text_i == splits[i]
             split_length == Len(split_text_i)
             split_start == current_char
             split_end == SplitEnd(current_char, split_length)
         IN  <<[page_content |-> split_text_i,
                metadata |-> [source_url |-> doc.metadata.source_url,
                              section_title |-> doc.metadata.section_title,
                              start_char |-> split_start,
                              end_char |-> split_end,
                              chunk_index |-> i - 1,
                              total_chunks |-> Len(splits),
                              original_start |-> doc.metadata.start_char,
                              original_end |-> doc.metadata.end_char]]>>
             \o OffsetSplits(doc, splits, i + 1, NextChar(split_end))

\* The concatenation of the lists lists[lo], ..., lists[hi].
RECURSIVE Flatten(_, _, _)
Flatten(lists, lo, hi) ==
    IF lo > hi THEN <<>>
    ELSE IF lo = hi THEN lists[lo]
    ELSE LET mid == (lo + hi) \div 2
         IN  Flatten(lists, lo, mid) \o Flatten(lists, mid + 1, hi)

\* Lines 101-137.
split_with_metadata_preservation(documents) ==
    Flatten([k \in DOMAIN documents |->
                OffsetSplits(documents[k], split_text(documents[k]), 1,
                             documents[k].metadata.start_char)],
            1, Len(documents))

\* add_chunks, lines 150-156: conversion and token-based re-chunking of the
\* loaded sections.
SplitChunks ==
    /\ UNCHANGED <<crawl_vars, ext_vars, index_vars, chat_vars>>
    /\ split_pc = "loaded"
    /\ split_docs' = split_with_metadata_preservation(create_langchain_documents(split_in))
    /\ split_pc' = "done"
    /\ UNCHANGED split_in

(***************************************************************************)
(* Index ingestion (VectorStore.add_chunks, VectorStore.initialize).       *)
(***************************************************************************)
MaxCorpus == 201
MaxIngestCalls == 2

batch_size == 100

\* A corpus of n short sections laid out one after the other.
CorpusOf(n) ==
    [i \in 1..n |-> MakeSection(<<HB, "/", "remote">>, "Remote Work", (i - 1) * 40,
                                 RemoteWork.segs, " ")]

\* The chunk lists gitlab_chunks.json can hold.
CorpusInputs ==
    { CorpusOf(n) : n \in {0, 1, batch_size, batch_size + 1, MaxCorpus} }
    \cup { <<TinyHuge>> }

\* The chunk lists handed to add_chunks directly.
AddInputs == { CorpusOf(0), CorpusOf(batch_size + 1), <<TinyHuge>> }

\* load_chunks, lines 72-79.
load_chunks(file) == IF ~file.exists THEN <<>> ELSE file.chunks

NoFile == [exists |-> FALSE, chunks |-> <<>>]
FileInputs == {NoFile} \cup {[exists |-> TRUE, chunks |-> c] : c \in CorpusInputs}

AlreadyPopulatedOverBatch(existing_count) == existing_count > batch_size

\* Line 169.
AlreadyPopulated(existing_count) == existing_count > 0

Min(a, b) == IF a < b THEN a ELSE b

\* add_chunks, lines 141-182: everything up to the batch loop.  count_fails
\* is the except branch of lines 165-166.
BeginAdd(chunks, apply_token_chunking, count_fails) ==
    /\ ingest_calls' = ingest_calls + 1
    /\ idx_before' = index_docs
    /\ calls_before' = add_calls
    /\ UNCHANGED <<index_docs, add_calls>>
    /\ IF chunks = <<>>
       THEN /\ last_outcome' = "no_chunks"
            /\ reported' = 0
            /\ run_docs' = <<>>
            /\ UNCHANGED <<idx_pc, pending, batch_pos>>
       ELSE LET converted == create_langchain_documents(chunks)
                documents == IF apply_token_chunking
                             THEN split_with_metadata_preservation(converted)
                             ELSE converted
                existing_count == IF count_fails THEN 0 ELSE Len(index_docs)
            IN  /\ reported' = existing_count
                /\ IF AlreadyPopulated(existing_count)
                   THEN /\ last_outcome' = "skipped"
                        /\ run_docs' = <<>>
                        /\ UNCHANGED <<idx_pc, pending, batch_pos>>
                   ELSE /\ last_outcome' = "adding"
                        /\ idx_pc' = "adding"
                        /\ pending' = documents
                        /\ run_docs' = documents
                        /\ batch_pos' = 0

\* A direct call of add_chunks.
AddChunks(chunks, apply_token_chunking, count_fails) ==
    /\ UNCHANGED <<crawl_vars, ext_vars, split_vars, chat_vars>>
    /\ idx_pc = "idle"
    /\ ingest_calls < MaxIngestCalls
    /\ entry' = "add_chunks"
    /\ BeginAdd(chunks, apply_token_chunking, count_fails)
    /\ UNCHANGED corpus

\* initialize, lines 257-265.
Initialize(apply_token_chunking, count_fails) ==
    /\ UNCHANGED <<crawl_vars, ext_vars, split_vars, chat_vars>>
    /\ idx_pc = "idle"
    /\ ingest_calls < MaxIngestCalls
    /\ entry' = "initialize"
    /\ LET chunks == load_chunks(corpus)
       IN  IF chunks # <<>>
           THEN BeginAdd(chunks, apply_token_chunking, count_fails)
           ELSE /\ ingest_calls' = ingest_calls + 1
                /\ idx_before' = index_docs
                /\ calls_before' = add_calls
                /\ last_outcome' = "no_chunks"
                /\ reported' = 0
                /\ run_docs' = <<>>
                /\ UNCHANGED <<index_docs, add_calls, idx_pc, pending, batch_pos>>
    /\ UNCHANGED corpus

BatchFromStart(documents, i) ==
    SubSeq(documents, 1, Min(batch_size, Len(documents)))

\* Line 189: documents[i:i + batch_size].
Batch(documents, i) ==
    SubSeq(documents, i + 1, Min(i + batch_size, Len(documents)))

\* Lines 188-191: one batch is embedded and inserted.
AddBatch ==
    /\ UNCHANGED <<crawl_vars, ext_vars, split_vars, chat_vars>>
    /\ idx_pc = "adding"
    /\ batch_pos < Len(pending)
    /\ index_docs' = index_docs \o Batch(pending, batch_pos)
    /\ add_calls' = add_calls + 1
    /\ batch_pos' = batch_pos + batch_size
    /\ UNCHANGED <<corpus, idx_pc, pending, ingest_calls, last_outcome, reported,
                   idx_before, calls_before, entry, run_docs>>

\* Line 191 raises: the error leaves add_chunks, the batch is not stored.
AddBatchRaises ==
    /\ UNCHANGED <<crawl_vars, ext_vars, split_vars, chat_vars>>
    /\ idx_pc = "adding"
    /\ batch_pos < Len(pending)
    /\ add_calls' = add_calls + 1
    /\ idx_pc' = "idle"
    /\ last_outcome' = "raised"
    /\ pending' = <<>>
    /\ batch_pos' = 0
    /\ UNCHANGED <<corpus, index_docs, ingest_calls, reported, idx_before, calls_before,
                   entry, run_docs>>

\* Lines 202-220: the loop is over.
FinishAdd ==
    /\ UNCHANGED <<crawl_vars, ext_vars, split_vars, chat_vars>>
    /\ idx_pc = "adding"
    /\ batch_pos >= Len(pending)
    /\ idx_pc' = "idle"
    /\ last_outcome' = "completed"
    /\ pending' = <<>>
    /\ batch_pos' = 0
    /\ UNCHANGED <<corpus, index_docs, add_calls, ingest_calls, reported,
                   idx_before, calls_before, entry, run_docs>>


(***************************************************************************)
(* Question answering (Chatbot).  A query is a sequence of characters, so  *)
(* that lower-casing and substring search are computed on it.              *)
(***************************************************************************)
MaxQueryWords == 2

UpperCase == <<"A", "B", "C", "D", "E", "F", "G", "H", "I", "J", "K", "L", "M",
               "N", "O", "P", "Q", "R", "S", "T", "U", "V", "W", "X", "Y", "Z">>
LowerCase == <<"a", "b", "c", "d", "e", "f", "g", "h", "i", "j", "k", "l", "m",
               "n", "o", "p", "q", "r", "s", "t", "u", "v", "w", "x", "y", "z">>

\* str.lower() on one character.
LowerChar(c) ==
    IF c \in Range(UpperCase)
    THEN LowerCase[CHOOSE i \in DOMAIN UpperCase : UpperCase[i] = c]
    ELSE c

\* str.lower(), line 144.
Lower(chars) == [i \in DOMAIN chars |-> LowerChar(chars[i])]

\* The Python test `needle in hay` on strings, line 146.
Contains(hay, needle) ==
    \E i \in 0..(Len(hay) - Len(needle)) : \A j \in DOMAIN needle : hay[i + j] = needle[j]

\* Lines 139-142.
inappropriate_keywords == <<
    <<"h", "a", "c", "k">>,
    <<"e", "x", "p", "l", "o", "i", "t">>,
    <<"b", "y", "p", "a", "s", "s">>,
    <<"u", "n", "a", "u", "t", "h", "o", "r", "i", "z", "e", "d", " ", "a", "c", "c", "e", "s", "s">>,
    <<"p", "e", "r", "s", "o", "n", "a", "l", " ", "i", "n", "f", "o", "r", "m", "a", "t", "i", "o", "n">>,
    <<"p", "r", "i", "v", "a", "t", "e", " ", "d", "a", "t", "a">>,
    <<"c", "o", "n", "f", "i", "d", "e", "n", "t", "i", "a", "l">>
>>

\* The words queries are made of.
QueryWords == {
    <<"H", "a", "c", "k", "a", "t", "h", "o", "n">>,
    <<"e", "x", "p", "l", "o", "i", "t", "s">>,
    <<"B", "Y", "P", "A", "S", "S">>,
    <<"u", "n", "a", "u", "t", "h", "o", "r", "i", "z", "e", "d">>,
    <<"a", "c", "c", "e", "s", "s">>,
    <<"p", "e", "r", "s", "o", "n", "a", "l">>,
    <<"i", "n", "f", "o", "r", "m", "a", "t", "i", "o", "n">>,
    <<"p", "r", "i", "v", "a", "t", "e">>,
    <<"d", "a", "t", "a">>,
    <<"C", "o", "n", "f", "i", "d", "e", "n", "t", "i", "a", "l">>,
    <<"v", "a", "l", "u", "e", "s">>,
    <<"r", "e", "m", "o", "t", "e">>
}

\* " ".join(words).
RECURSIVE JoinWords(_)
JoinWords(ws) ==
    IF ws = <<>> THEN <<>>
    ELSE IF Len(ws) = 1 THEN ws[1]
    ELSE ws[1] \o <<" ">> \o JoinWords(Tail(ws))

BypassQuery ==
    <<"h", "o", "w", " ", "d", "o", " ", "I", " ", "b", "y", "p", "a", "s", "s", " ", "t", "h", "e", " ", "a", "p", "p", "r", "o", "v", "a", "l", " ", "p", "r", "o", "c", "e", "s", "s">>
ValuesQuery ==
    <<"w", "h", "a", "t", " ", "a", "r", "e", " ", "g", "i", "t", "l", "a", "b", "'", "s", " ", "c", "o", "r", "e", " ", "v", "a", "l", "u", "e", "s">>

QueryInputs ==
    {BypassQuery, ValuesQuery} \cup { JoinWords(ws) : ws \in SeqsUpTo(QueryWords, MaxQueryWords) }

RefusalPrefix ==
    <<"I", " ", "c", "a", "n", " ", "o", "n", "l", "y", " ", "h", "e", "l", "p", " ",
      "w", "i", "t", "h", " ", "q", "u", "e", "s", "t", "i", "o", "n", "s", " ", "a",
      "b", "o", "u", "t", " ", "G", "i", "t", "L", "a", "b", "'", "s", " ", "p", "u",
      "b", "l", "i", "c", " ", "H", "a", "n", "d", "b", "o", "o", "k", " ", "a", "n",
      "d", " ", "D", "i", "r", "e", "c", "t", "i", "o", "n", " ", "p", "a", "g", "e",
      "s", ".", " ", "I", " ", "c", "a", "n", "n", "o", "t", " ", "a", "s", "s", "i",
      "s", "t", " ", "w", "i", "t", "h", " ">>

\* Line 147.
RefusalMessage(keyword) == RefusalPrefix \o keyword \o <<".">>

\* Optional values: None, or a value that is present.
None == <<>>
Some(x) == <<x>>

\* Lines 145-149: the loop over the keywords from position k on.
RECURSIVE CheckFrom(_, _)
CheckFrom(query_lower, k) ==
    IF k > Len(inappropriate_keywords)
    THEN [appropriate |-> TRUE, message |-> None]
    ELSE IF Contains(query_lower, inappropriate_keywords[k])
         THEN [appropriate |-> FALSE,
               message |-> Some(RefusalMessage(inappropriate_keywords[k]))]
         ELSE CheckFrom(query_lower, k + 1)

check_query_as_typed(q) == CheckFrom(q, 1)

\* check_query_appropriateness, lines 137-149.
check_query_appropriateness(q) == CheckFrom(Lower(q), 1)

(***************************************************************************)
(* Generated text and its post-processing (lines 218-228).  A text is a    *)
(* sequence of characters with "\n" between its lines.                     *)
(***************************************************************************)
MaxLines == 3

LnAnswer ==
    <<"V", "a", "l", "u", "e", "s", " ", "m", "a", "t", "t", "e", "r", ".">>
LnEmpty ==
    <<>>
LnBlank ==
    <<" ", " ">>
LnSources ==
    <<"S", "o", "u", "r", "c", "e", "s", ":">>
LnSourcesUrl ==
    <<"s", "o", "u", "r", "c", "e", "s", ":", " ", "h", "t", "t", "p", ":", "/", "/",
      "x", ".", "y", "/", "z">>
LnIndented ==
    <<" ", "S", "O", "U", "R", "C", "E", "S", ":", " ", "x">>
LnInline ==
    <<"S", "e", "e", " ", "s", "o", "u", "r", "c", "e", "s", ":", " ", "b", "e", "l",
      "o", "w">>
LnResources ==
    <<"R", "e", "s", "o", "u", "r", "c", "e", "s", ":", " ", "x">>
LineKinds == {LnAnswer, LnEmpty, LnBlank, LnSources, LnSourcesUrl, LnIndented, LnInline, LnResources}

\* '\n'.join(lines), line 228.
RECURSIVE JoinLines(_)
JoinLines(lines) ==
    IF lines = <<>> THEN <<>>
    ELSE IF Len(lines) = 1 THEN lines[1]
    ELSE lines[1] \o <<"\n">> \o JoinLines(Tail(lines))

\* The texts llm.invoke can return.
TextInputs == { JoinLines(ls) : ls \in SeqsUpTo(LineKinds, MaxLines) \ {<<>>} }

\* str.split('\n'), line 222.
RECURSIVE SplitLines(_)
SplitLines(text) ==
    IF \A i \in DOMAIN text : text[i] # "\n"
    THEN <<text>>
    ELSE LET n == CHOOSE i \in DOMAIN text :
                     text[i] = "\n" /\ \A j \in 1..(i - 1) : text[j] # "\n"
         IN  <<SubSeq(text, 1, n - 1)>> \o SplitLines(SubSeq(text, n + 1, Len(text)))

IsSpace(c) == c \in {" ", "\n", "\t"}

\* str.strip().
Strip(text) ==
    IF \A i \in DOMAIN text : IsSpace(text[i])
    THEN <<>>
    ELSE LET first == CHOOSE i \in DOMAIN text :
                         ~IsSpace(text[i]) /\ \A j \in 1..(i - 1) : IsSpace(text[j])
             last == CHOOSE i \in DOMAIN text :
                         ~IsSpace(text[i]) /\ \A j \in (i + 1)..Len(text) : IsSpace(text[j])
         IN  SubSeq(text, first, last)

\* str.startswith().
StartsWith(text, prefix) ==
    Len(text) >= Len(prefix) /\ SubSeq(text, 1, Len(prefix)) = prefix

SourcesCapital == <<"S", "o", "u", "r", "c", "e", "s", ":">>
SourcesLower == <<"s", "o", "u", "r", "c", "e", "s", ":">>

\* Line 225.
IsSourcesLine(line) == StartsWith(Lower(Strip(line)), SourcesLower)

\* Lines 223-227: the lines kept, up to the first sources line.
RECURSIVE CleanedLines(_)
CleanedLines(lines) ==
    IF lines = <<>> \/ IsSourcesLine(lines[1])
    THEN <<>>
    ELSE <<lines[1]>> \o CleanedLines(Tail(lines))

KeepSources(response_text) == response_text

\* Lines 220-228.
RemoveSources(response_text) ==
    IF Contains(response_text, SourcesCapital) \/ Contains(Lower(response_text), SourcesLower)
    THEN Strip(JoinLines(CleanedLines(SplitLines(response_text))))
    ELSE response_text

(***************************************************************************)
(* The collection the chatbot reads, and retrieval from it.  Distances are *)
(* kept in hundredths (30 stands for 0.30) and a mean is compared with a   *)
(* threshold exactly.                                                      *)
(***************************************************************************)
MaxMatches == 3

ChatDoc(url, title, start_char, end_char) ==
    [page_content |-> title,
     metadata |-> [source_url |-> url, section_title |-> title,
                   start_char |-> start_char, end_char |-> end_char]]

DocValues == ChatDoc(<<HB, "/", "values">>, "Values", 0, 120)
DocCollab == ChatDoc(<<HB, "/", "values">>, "Collaboration", 120, 300)
DocRemote == ChatDoc(<<HB, "/", "remote">>, "Remote Work", 0, 32)
DocNoUrl == ChatDoc(<<>>, "Untitled", 0, 60)
DocDirection == ChatDoc(<<AB, "/", "direction">>, "Direction", 0, 80)
DocHiring == ChatDoc(<<HB, "/", "hiring">>, "Hiring", 40, 200)

ChatDocs == {DocValues, DocCollab, DocRemote, DocNoUrl}
Distances == {0, 10, 30, 50, 60}

Match(doc, distance) == [doc |-> doc, distance |-> distance]

\* Six documents, more than the retriever's k.
BigRanking ==
    <<Match(DocValues, 10), Match(DocRemote, 20), Match(DocCollab, 30),
      Match(DocDirection, 40), Match(DocNoUrl, 50), Match(DocHiring, 60)>>

\* The store answers a similarity query with distinct documents in
\* ascending order of distance.
IsRanking(r) ==
    /\ \A i, j \in DOMAIN r : i < j => r[i].doc # r[j].doc
    /\ \A i \in 1..(Len(r) - 1) : r[i].distance <= r[i + 1].distance

RankingInputs ==
    { r \in SeqsUpTo({Match(d, x) : d \in ChatDocs, x \in Distances}, MaxMatches) :
        IsRanking(r) } \cup {BigRanking}

DocsOf(r) == { r[i].doc : i \in DOMAIN r }

CollectionInputs == { DocsOf(r) : r \in RankingInputs }

\* k of the retriever, line 72.
RetrieverK == 5

\* similarity_search_with_score(query, k), lines 232-235.
TopK(r, k) == SubSeq(r, 1, Min(k, Len(r)))

\* vector_store.search, lines 237-248: one formatted result per match.
FormatResults(results) ==
    [i \in DOMAIN results |->
        [content |-> results[i].doc.page_content,
         source_url |-> results[i].doc.metadata.source_url,
         section_title |-> results[i].doc.metadata.section_title,
         start_char |-> results[i].doc.metadata.start_char,
         end_char |-> results[i].doc.metadata.end_char,
         distance |-> results[i].distance]]

\* retriever.invoke: the documents of the k nearest matches, without scores.
RetrieverDocs(r) == [i \in DOMAIN TopK(r, RetrieverK) |-> r[i].doc]

SeenAfterForget(seen_urls, url) == seen_urls

\* Lines 118 and 133.
SeenAfter(seen_urls, url) == seen_urls \cup {url}

\* Lines 107-118.
RECURSIVE SourcesFromDocuments(_, _, _)
SourcesFromDocuments(docs, sources, seen_urls) ==
    IF docs = <<>> THEN [sources |-> sources, seen_urls |-> seen_urls]
    ELSE LET metadata == docs[1].metadata
             url == metadata.source_url
         IN  IF url # <<>> /\ url \notin seen_urls
             THEN SourcesFromDocuments(Tail(docs),
                      Append(sources, [url |-> url,
                                       section_title |-> metadata.section_title,
                                       start_char |-> metadata.start_char,
                                       end_char |-> metadata.end_char,
                                       relevance_score |-> None]),
                      SeenAfter(seen_urls, url))
             ELSE SourcesFromDocuments(Tail(docs), sources, seen_urls)

\* Line 131: 1 - distance if distance else None.
RelevanceScore(distance) == IF distance # 0 THEN Some(100 - distance) ELSE None

\* Lines 122-133.
RECURSIVE SourcesFromResults(_, _, _)
SourcesFromResults(results, sources, seen_urls) ==
    IF results = <<>> THEN sources
    ELSE LET url == results[1].source_url
         IN  IF url \notin seen_urls
             THEN SourcesFromResults(Tail(results),
                      Append(sources, [url |-> url,
                                       section_title |-> results[1].section_title,
                                       start_char |-> results[1].start_char,
                                       end_char |-> results[1].end_char,
                                       relevance_score |-> RelevanceScore(results[1].distance)]),
                      SeenAfter(seen_urls, url))
             ELSE SourcesFromResults(Tail(results), sources, seen_urls)

\* extract_sources, lines 100-135.
extract_sources(docs, results) ==
    LET first == SourcesFromDocuments(docs, <<>>, {})
    IN  SourcesFromResults(results, first.sources, first.seen_urls)

\* Line 236: source.get('url') and source['url'].startswith('http').
StartsWithHttp(url) == url # <<>> /\ url[1] \in Hosts

RECURSIVE SelectSeq2(_, _)
SelectSeq2(seq, keep) ==
    IF seq = <<>> THEN <<>>
    ELSE IF keep[1] THEN <<seq[1]>> \o SelectSeq2(Tail(seq), Tail(keep))
    ELSE SelectSeq2(Tail(seq), Tail(keep))

\* Lines 234-238.
ValidatedSources(sources) ==
    SelectSeq2(sources, [i \in DOMAIN sources |-> StartsWithHttp(sources[i].url)])

RECURSIVE SumDistances(_)
SumDistances(results) ==
    IF results = <<>> THEN 0 ELSE results[1].distance + SumDistances(Tail(results))

HighBelow == 30
MediumBelow == 50

AtOrBelow(total, n, threshold) == total <= threshold * n

\* avg_distance < threshold, with avg_distance = total / n (lines 242-245).
Below(total, n, threshold) == total < threshold * n

\* Lines 241-250.
Confidence(results) ==
    IF results # <<>>
    THEN IF Below(SumDistances(results), Len(results), HighBelow) THEN "high"
         ELSE IF Below(SumDistances(results), Len(results), MediumBelow) THEN "medium"
         ELSE "low"
    ELSE "low"

(***************************************************************************)
(* generate_response (lines 151-272), one action per external call.        *)
(***************************************************************************)
MaxChatCalls == 4

ErrorPrefix ==
    <<"I", " ", "e", "n", "c", "o", "u", "n", "t", "e", "r", "e", "d", " ", "a", "n",
      " ", "e", "r", "r", "o", "r", ":", " ">>
ErrorSuffix ==
    <<".", " ", "P", "l", "e", "a", "s", "e", " ", "t", "r", "y", " ", "a", "g", "a",
      "i", "n", ".">>

\* str(e) of the exceptions the store and the model raise.
Timeout ==
    <<"t", "i", "m", "e", "o", "u", "t">>
QuotaExceeded ==
    <<"q", "u", "o", "t", "a", " ", "e", "x", "c", "e", "e", "d", "e", "d">>
Errors == {Timeout, QuotaExceeded}

RemoteQuery ==
    <<"r", "e", "m", "o", "t", "e">>

BlockedResultUnflagged(guardrail_message) ==
    [response |-> guardrail_message, sources |-> <<>>, confidence |-> "low",
     context_used |-> FALSE, guardrail_triggered |-> FALSE]

\* Lines 172-178.
BlockedResult(guardrail_message) ==
    [response |-> guardrail_message, sources |-> <<>>, confidence |-> "low",
     context_used |-> FALSE, guardrail_triggered |-> TRUE]

\* Lines 256-262.
AnsweredResult(response_text, sources, confidence, used) ==
    [response |-> response_text, sources |-> sources, confidence |-> confidence,
     context_used |-> used, guardrail_triggered |-> FALSE]

ErrorResultUnmarked(e) ==
    [response |-> ErrorPrefix \o e \o ErrorSuffix, sources |-> <<>>,
     confidence |-> "low", context_used |-> FALSE]

\* Lines 265-272.
ErrorResult(e) ==
    [response |-> ErrorPrefix \o e \o ErrorSuffix, sources |-> <<>>,
     confidence |-> "low", context_used |-> FALSE, error |-> e]

LastFourWhole(history) == history

\* conversation_history[-4:], line 203.
LastFour(history) == SubSeq(history, Len(history) - Min(4, Len(history)) + 1, Len(history))

\* Lines 203-205.
RECURSIVE HistoryLines(_)
HistoryLines(msgs) ==
    IF msgs = <<>> THEN <<>>
    ELSE (IF msgs[1].role = "user" THEN <<"U", "s", "e", "r">>
          ELSE <<"A", "s", "s", "i", "s", "t", "a", "n", "t">>)
         \o <<":", " ">> \o msgs[1].content \o <<"\n">> \o HistoryLines(Tail(msgs))

\* Lines 201-205.
ChatHistoryStr(include, history) ==
    IF include /\ history # <<>> THEN HistoryLines(LastFour(history)) ELSE <<>>

\* Lines 194-212: the variables the prompt template is filled with.
BuildPrompt ==
    [context |-> [i \in DOMAIN source_documents |-> source_documents[i].page_content],
     question |-> query,
     chat_history |-> ChatHistoryStr(include_history, conversation_history)]

\* Lines 253-254.
Remember(history, q, response_text) ==
    history \o <<[role |-> "user", content |-> q],
                 [role |-> "assistant", content |-> response_text]>>

AfterGenerationFailureRetry == "Composing"

\* Lines 264-272: the except clause returns.
AfterGenerationFailure == "Idle"

AfterGuardrailBlockGoesOn == "Retrieving"

\* Lines 171-178: the refusal is returned at once.
AfterGuardrailBlock == "Idle"

\* A call of generate_response up to the guardrail check, lines 170-178.
\* r is the order in which the store ranks its documents for this query.
Ask(q, hist, k, r) ==
    /\ UNCHANGED <<crawl_vars, ext_vars, split_vars, index_vars>>
    /\ chat_pc = "Idle"
    /\ chat_calls < MaxChatCalls
    /\ DocsOf(r) = collection
    /\ chat_calls' = chat_calls + 1
    /\ query' = q
    /\ include_history' = hist
    /\ max_context_chunks' = k
    /\ history_before' = conversation_history
    /\ store_queries' = 0
    /\ llm_calls' = 0
    /\ prompt' = None
    /\ generated' = None
    /\ search_results' = <<>>
    /\ source_documents' = <<>>
    /\ context_used' = FALSE
    /\ LET checked == check_query_appropriateness(q)
       IN  /\ guard' = checked
           /\ IF ~checked.appropriate
              THEN /\ result' = Some(BlockedResult(checked.message[1]))
                   /\ outcome' = "Blocked"
                   /\ chat_pc' = AfterGuardrailBlock
                   /\ ranking' = <<>>
              ELSE /\ result' = None
                   /\ outcome' = "Running"
                   /\ chat_pc' = "Retrieving"
                   /\ ranking' = r
    /\ UNCHANGED <<collection, conversation_history, answered>>

CountedEmptyNever(count) == FALSE

\* Lines 228-229 of vector_store.py: if count == 0: return [].
CountedEmpty(count) == count = 0

\* Line 181, vector_store.search returns (lines 224-250).  count_fails is
\* the except branch of lines 226-227.
Search(count_fails) ==
    /\ UNCHANGED <<crawl_vars, ext_vars, split_vars, index_vars>>
    /\ chat_pc = "Retrieving"
    /\ LET count == IF count_fails THEN 0 ELSE Cardinality(collection)
           found == IF CountedEmpty(count) THEN <<>>
                    ELSE FormatResults(TopK(ranking, max_context_chunks))
       IN  /\ search_results' = found
           /\ context_used' = (Len(found) > 0)
           /\ store_queries' = IF CountedEmpty(count) THEN store_queries
                               ELSE store_queries + 1
    /\ chat_pc' = "RetrievingDocs"
    /\ UNCHANGED <<collection, conversation_history, query, include_history,
                   max_context_chunks, ranking, source_documents, result, chat_calls,
                   outcome, guard, llm_calls, prompt, generated, history_before,
                   answered>>

\* Line 181, similarity_search_with_score raises: the call is outside the
\* try of line 184, the exception leaves generate_response.
SearchRaises ==
    /\ UNCHANGED <<crawl_vars, ext_vars, split_vars, index_vars>>
    /\ chat_pc = "Retrieving"
    /\ collection # {}
    /\ store_queries' = store_queries + 1
    /\ outcome' = "Raised"
    /\ chat_pc' = "Idle"
    /\ UNCHANGED <<collection, conversation_history, query, include_history,
                   max_context_chunks, ranking, search_results, context_used,
                   source_documents, result, chat_calls, guard, llm_calls, prompt,
                   generated, history_before, answered>>

\* Line 188, retriever.invoke returns.
Retrieve ==
    /\ UNCHANGED <<crawl_vars, ext_vars, split_vars, index_vars>>
    /\ chat_pc = "RetrievingDocs"
    /\ source_documents' = RetrieverDocs(ranking)
    /\ store_queries' = store_queries + 1
    /\ chat_pc' = "Composing"
    /\ UNCHANGED <<collection, conversation_history, query, include_history,
                   max_context_chunks, ranking, search_results, context_used, result,
                   chat_calls, outcome, guard, llm_calls, prompt, generated,
                   history_before, answered>>

\* Line 188, retriever.invoke raises inside the try.
RetrieveRaises(e) ==
    /\ UNCHANGED <<crawl_vars, ext_vars, split_vars, index_vars>>
    /\ chat_pc = "RetrievingDocs"
    /\ store_queries' = store_queries + 1
    /\ result' = Some(ErrorResult(e))
    /\ outcome' = "Errored"
    /\ chat_pc' = "Idle"
    /\ UNCHANGED <<collection, conversation_history, query, include_history,
                   max_context_chunks, ranking, search_results, context_used,
                   source_documents, chat_calls, guard, llm_calls, prompt, generated,
                   history_before, answered>>

\* Lines 194-262, llm.invoke returns response_text.
Generate(response_text) ==
    /\ UNCHANGED <<crawl_vars, ext_vars, split_vars, index_vars>>
    /\ chat_pc = "Composing"
    /\ prompt' = Some(BuildPrompt)
    /\ llm_calls' = llm_calls + 1
    /\ generated' = Some(response_text)
    /\ LET cleaned == RemoveSources(response_text)
           sources == ValidatedSources(extract_sources(source_documents, search_results))
           confidence == Confidence(search_results)
       IN  /\ conversation_history' = Remember(conversation_history, query, cleaned)
           /\ result' = Some(AnsweredResult(cleaned, sources, confidence, context_used))
    /\ outcome' = "Answered"
    /\ answered' = answered + 1
    /\ chat_pc' = "Idle"
    /\ UNCHANGED <<collection, query, include_history, max_context_chunks, ranking,
                   search_results, context_used, source_documents, chat_calls, guard,
                   store_queries, history_before>>

HistoryAfterErrorKeepsQuery(history, q) ==
    history \o <<[role |-> "user", content |-> q]>>

\* Lines 264-272: the except clause does not touch conversation_history
\* (the appends of lines 253-254 come after llm.invoke).
HistoryAfterError(history, q) == history

\* Lines 194-215 and 264-272, llm.invoke raises.
GenerateRaises(e) ==
    /\ UNCHANGED <<crawl_vars, ext_vars, split_vars, index_vars>>
    /\ chat_pc = "Composing"
    /\ prompt' = Some(BuildPrompt)
    /\ llm_calls' = llm_calls + 1
    /\ result' = Some(ErrorResult(e))
    /\ outcome' = "Errored"
    /\ chat_pc' = AfterGenerationFailure
    /\ conversation_history' = HistoryAfterError(conversation_history, query)
    /\ UNCHANGED <<collection, query, include_history,
                   max_context_chunks, ranking, search_results, context_used,
                   source_documents, chat_calls, guard, store_queries, generated,
                   history_before, answered>>

\* clear_history, lines 274-276.
ClearHistory ==
    /\ UNCHANGED <<crawl_vars, ext_vars, split_vars, index_vars>>
    /\ chat_pc = "Idle"
    /\ conversation_history # <<>>
    /\ conversation_history' = <<>>
    /\ answered' = 0
    /\ UNCHANGED <<collection, chat_pc, query, include_history, max_context_chunks,
                   ranking, search_results, context_used, source_documents, result,
                   chat_calls, outcome, guard, store_queries, llm_calls, prompt,
                   generated, history_before>>

DefaultMaxDepth == 3
DefaultMaxPages == 100

InitCrawl ==
    /\ max_depth \in 0..MaxDepthBound
    /\ max_pages \in 0..MaxPagesBound
    /\ base_domain = "handbook"
    /\ visited_urls = {}
    /\ stack = <<>>
    /\ all_urls = <<>>
    /\ crawl_pc = "idle"
    /\ runs = 0
    /\ fetch_log = <<>>
    /\ relinked = {}
    /\ dropped = {}

\* A scraper as constructed at line 339 that has not crawled.
IdleCrawl ==
    /\ max_depth = DefaultMaxDepth
    /\ max_pages = DefaultMaxPages
    /\ base_domain = "handbook"
    /\ visited_urls = {}
    /\ stack = <<>>
    /\ all_urls = <<>>
    /\ crawl_pc = "idle"
    /\ runs = 0
    /\ fetch_log = <<>>
    /\ relinked = {}
    /\ dropped = {}

InitExtract ==
    /\ page \in PageInputs
    /\ sections = <<>>
    /\ ext_pc = "parsed"
    /\ closeouts = <<>>

IdleExtract ==
    /\ page = [elements |-> <<>>, loose |-> <<>>]
    /\ sections = <<>>
    /\ ext_pc = "done"
    /\ closeouts = <<>>

InitSplit ==
    /\ split_in \in SplitInputs
    /\ split_docs = <<>>
    /\ split_pc = "loaded"

IdleSplit ==
    /\ split_in = <<>>
    /\ split_docs = <<>>
    /\ split_pc = "done"

InitIndex ==
    /\ corpus \in FileInputs
    /\ index_docs = <<>>
    /\ add_calls = 0
    /\ idx_pc = "idle"
    /\ pending = <<>>
    /\ batch_pos = 0
    /\ ingest_calls = 0
    /\ last_outcome = "none"
    /\ reported = 0
    /\ idx_before = <<>>
    /\ calls_before = 0
    /\ entry = "none"
    /\ run_docs = <<>>

IdleIndex ==
    /\ corpus = NoFile
    /\ index_docs = <<>>
    /\ add_calls = 0
    /\ idx_pc = "idle"
    /\ pending = <<>>
    /\ batch_pos = 0
    /\ ingest_calls = 0
    /\ last_outcome = "none"
    /\ reported = 0
    /\ idx_before = <<>>
    /\ calls_before = 0
    /\ entry = "none"
    /\ run_docs = <<>>

InitChat ==
    /\ conversation_history = <<>>
    /\ chat_pc = "Idle"
    /\ query = <<>>
    /\ include_history = TRUE
    /\ max_context_chunks = RetrieverK
    /\ ranking = <<>>
    /\ search_results = <<>>
    /\ context_used = FALSE
    /\ source_documents = <<>>
    /\ result = None
    /\ chat_calls = 0
    /\ outcome = "None"
    /\ guard = None
    /\ store_queries = 0
    /\ llm_calls = 0
    /\ prompt = None
    /\ generated = None
    /\ history_before = <<>>
    /\ answered = 0

\* No chatbot has been constructed.
IdleChat == InitChat /\ collection = {}

vars == <<crawl_vars, ext_vars, split_vars, index_vars, chat_vars>>

(***************************************************************************)
(* Specification of the crawler.                                           *)
(***************************************************************************)
Init == InitCrawl /\ IdleExtract /\ IdleSplit /\ IdleIndex /\ IdleChat

Next ==
    \/ \E domain \in {"handbook", "direction"} : FindAllPages(domain)
    \/ CrawlStep

Spec == Init /\ [][Next]_vars

\* The crawl is one sequential computation: a step that can be taken is taken.
FairSpec == Init /\ [][Next]_vars /\ WF_vars(CrawlStep)

(***************************************************************************)
(* Specifications of the other components.                                 *)
(***************************************************************************)
ExtractInit == IdleCrawl /\ InitExtract /\ IdleSplit /\ IdleIndex /\ IdleChat
ExtractNext == ExtractPage
ExtractSpec == ExtractInit /\ [][ExtractNext]_vars

SplitInit == IdleCrawl /\ IdleExtract /\ InitSplit /\ IdleIndex /\ IdleChat
SplitNext == SplitChunks
SplitSpec == SplitInit /\ [][SplitNext]_vars

IndexInit == IdleCrawl /\ IdleExtract /\ IdleSplit /\ InitIndex /\ IdleChat
IndexNext ==
    \/ \E chunks \in AddInputs, apply \in BOOLEAN, count_fails \in BOOLEAN :
          AddChunks(chunks, apply, count_fails)
    \/ \E apply \in BOOLEAN, count_fails \in BOOLEAN : Initialize(apply, count_fails)
    \/ AddBatch
    \/ AddBatchRaises
    \/ FinishAdd
IndexSpec == IndexInit /\ [][IndexNext]_vars

(***************************************************************************)
(* Specifications of the question-answering pipeline.                      *)
(***************************************************************************)
\* A conversation: several calls with a few queries, rankings and texts.
ChatCollections == { {}, {DocValues, DocRemote} }
ChatRankings ==
    { <<>>, <<Match(DocValues, 10), Match(DocRemote, 30)>> }
ChatQueries == {BypassQuery, ValuesQuery, RemoteQuery}
ChatTexts == { LnAnswer, JoinLines(<<LnResources, LnSources, LnSourcesUrl>>) }

ChatInit ==
    IdleCrawl /\ IdleExtract /\ IdleSplit /\ IdleIndex /\ InitChat
        /\ collection \in ChatCollections
ChatNext ==
    \/ \E q \in ChatQueries, hist \in BOOLEAN, r \in ChatRankings :
          Ask(q, hist, RetrieverK, r)
    \/ \E count_fails \in BOOLEAN : Search(count_fails)
    \/ SearchRaises
    \/ Retrieve
    \/ RetrieveRaises(Timeout)
    \/ \E text \in ChatTexts : Generate(text)
    \/ \E e \in Errors : GenerateRaises(e)
    \/ ClearHistory
ChatSpec == ChatInit /\ [][ChatNext]_vars

\* One call of check_query_appropriateness on every query.
GuardInit == IdleCrawl /\ IdleExtract /\ IdleSplit /\ IdleIndex /\ IdleChat
GuardNext == \E q \in QueryInputs : chat_calls = 0 /\ Ask(q, TRUE, RetrieverK, <<>>)
GuardSpec == GuardInit /\ [][GuardNext]_vars

\* One call of generate_response over every collection, ranking and k.
ContextChunks == {1, 3, 5, 6}
SourceInit ==
    IdleCrawl /\ IdleExtract /\ IdleSplit /\ IdleIndex /\ InitChat
        /\ collection \in CollectionInputs
SourceNext ==
    \/ \E k \in ContextChunks, r \in RankingInputs :
          chat_calls = 0 /\ Ask(ValuesQuery, TRUE, k, r)
    \/ \E count_fails \in BOOLEAN : Search(count_fails)
    \/ SearchRaises
    \/ Retrieve
    \/ RetrieveRaises(Timeout)
    \/ Generate(JoinLines(<<LnAnswer, LnSourcesUrl>>))
    \/ GenerateRaises(Timeout)
SourceSpec == SourceInit /\ [][SourceNext]_vars

\* One call of generate_response with every generated text.
CleanInit ==
    IdleCrawl /\ IdleExtract /\ IdleSplit /\ IdleIndex /\ InitChat
        /\ collection = {DocValues}
CleanNext ==
    \/ chat_calls = 0 /\ Ask(ValuesQuery, TRUE, RetrieverK, <<Match(DocValues, 10)>>)
    \/ Search(FALSE)
    \/ Retrieve
    \/ \E text \in TextInputs : Generate(text)
CleanSpec == CleanInit /\ [][CleanNext]_vars

(***************************************************************************)
(* Crawler properties.                                                     *)
(***************************************************************************)
Seed == BASE_URLS[base_domain]

\* C1: within one discovery run no normalised URL is fetched successfully
\* (and marked visited) twice, and neither a frame's list nor the returned
\* list holds a URL twice.
C1_NoUrlFetchedTwice ==
    /\ \A i, j \in DOMAIN fetch_log :
          (i < j /\ fetch_log[i].ok /\ fetch_log[j].ok) => fetch_log[i].url # fetch_log[j].url
    /\ \A i \in DOMAIN fetch_log : Normalize(fetch_log[i].url) = fetch_log[i].url
    /\ \A k \in DOMAIN stack : NoDuplicates(stack[k].urls_to_scrape)
    /\ crawl_pc = "done" => NoDuplicates(all_urls)

C1_Witness ==
    /\ crawl_pc = "done"
    /\ Len(all_urls) >= 3
    /\ Cardinality(relinked) >= 2

\* C2: the visited set never exceeds max_pages, no fetch is attempted once
\* it holds max_pages URLs, and at most max_pages URLs are returned.
C2_PageBudget ==
    /\ Cardinality(visited_urls) <= max_pages
    /\ \A i \in DOMAIN fetch_log : fetch_log[i].nvisited < max_pages
    /\ \A k \in DOMAIN stack : Len(stack[k].urls_to_scrape) <= max_pages
    /\ crawl_pc = "done" => Len(all_urls) <= max_pages

C2_Witness ==
    /\ crawl_pc = "done"
    /\ max_pages > 0
    /\ Cardinality(visited_urls) = max_pages
    /\ dropped \ visited_urls # {}

\* C3: no URL is fetched at a depth greater than max_depth; with
\* max_depth = 0 only the seed is fetched and returned.
C3_DepthBound ==
    /\ \A i \in DOMAIN fetch_log : fetch_log[i].depth <= max_depth
    /\ max_depth = 0 =>
          /\ \A i \in DOMAIN fetch_log : fetch_log[i].url = Seed
          /\ \A k \in DOMAIN stack : Range(stack[k].urls_to_scrape) \subseteq {Seed}
          /\ Range(all_urls) \subseteq {Seed}

C3_Witness ==
    /\ crawl_pc = "done"
    /\ max_depth = 0
    /\ all_urls = <<Seed>>
    /\ dropped # {}

\* C4: a URL whose fetch failed is never fetched again in the same run.
C4_FailedUrlNotRetried ==
    \A i, j \in DOMAIN fetch_log :
        (i < j /\ ~fetch_log[i].ok) => fetch_log[j].url # fetch_log[i].url

RECURSIVE OkUrls(_)
OkUrls(log) ==
    IF log = <<>> THEN <<>>
    ELSE IF Head(log).ok THEN <<Head(log).url>> \o OkUrls(Tail(log))
    ELSE OkUrls(Tail(log))

\* Every frontier URL the loop has passed was fetched before, was attempted
\* at this level, or was passed with the page budget exhausted.
FrontierAttempted ==
    \A k \in DOMAIN stack :
        \A p \in 1..Len(stack[k].start_urls) :
            p < stack[k].i =>
                \/ stack[k].start_urls[p] \in visited_urls
                \/ \E e \in DOMAIN fetch_log :
                      fetch_log[e].url = stack[k].start_urls[p] /\ fetch_log[e].depth = k - 1
                \/ Cardinality(visited_urls) >= max_pages

\* C5: a failed URL never stops the crawl: the other URLs of its frontier
\* are still attempted, the run terminates, and it returns the URLs that
\* were fetched successfully.
C5_FailureNotFatal ==
    /\ [](FrontierAttempted)
    /\ [](crawl_pc = "done" => all_urls = OkUrls(fetch_log))
    /\ (crawl_pc = "running") ~> (crawl_pc = "done")

C5_Witness ==
    /\ crawl_pc = "done"
    /\ \E i, j \in DOMAIN fetch_log :
          /\ i < j
          /\ ~fetch_log[i].ok
          /\ fetch_log[j].ok
          /\ fetch_log[i].depth = fetch_log[j].depth

(***************************************************************************)
(* Section extractor properties.                                           *)
(***************************************************************************)
\* C6: every section extract_sections returns spans exactly its content,
\* end_char - start_char = len(content), and each section starts at or
\* after the end of the section before it.
C6_SectionOffsets ==
    ext_pc = "done" =>
        /\ \A i \in DOMAIN sections :
              sections[i].end_char - sections[i].start_char = Len(sections[i].content)
        /\ \A i \in 1..(Len(sections) - 1) :
              /\ sections[i + 1].start_char >= sections[i].end_char
              /\ sections[i + 1].start_char >= sections[i].start_char

C6_Witness ==
    /\ ext_pc = "done"
    /\ Len(sections) >= 2
    /\ sections[2].start_char > 0

(***************************************************************************)
(* Re-chunker properties.                                                  *)
(***************************************************************************)
Meta(i) == split_docs[i].metadata

\* Documents i and i + 1 are consecutive chunks of the same section.
SameParent(i) == Meta(i + 1).chunk_index = Meta(i).chunk_index + 1

\* C7: the offsets of the chunks of one section never regress, and no
\* chunk starts before its section.
C7_OffsetsNeverRegress ==
    split_pc = "done" =>
        /\ \A i \in 1..(Len(split_docs) - 1) :
              SameParent(i) =>
                  /\ Meta(i + 1).start_char >= Meta(i).start_char
                  /\ Meta(i + 1).end_char >= Meta(i).end_char
        /\ \A i \in DOMAIN split_docs : Meta(i).start_char >= Meta(i).original_start

\* C8: the recorded range of every chunk lies inside its section's range.
C8_ChunkInsideSection ==
    split_pc = "done" =>
        \A i \in DOMAIN split_docs :
            /\ Meta(i).original_start <= Meta(i).start_char
            /\ Meta(i).end_char <= Meta(i).original_end

Fits(section) == TokenSum(section.segs) <= chunk_size

SingleChunkOf(doc, section) ==
    /\ doc.page_content = section.content
    /\ doc.metadata.chunk_index = 0
    /\ doc.metadata.total_chunks = 1
    /\ doc.metadata.start_char = section.start_char
    /\ doc.metadata.end_char = section.start_char + Len(section.content)

\* C9 as stated: a section that fits in one chunk yields exactly one chunk
\* with chunk_index 0, total_chunks 1 and the section's own range, which
\* for the "Remote Work" scenario is start_char 0 and end_char 33.
C9_SingleChunkEnd33 ==
    (split_pc = "done" /\ \A k \in DOMAIN split_in : Fits(split_in[k])) =>
        /\ Len(split_docs) = Len(split_in)
        /\ \A k \in DOMAIN split_in : SingleChunkOf(split_docs[k], split_in[k])
        /\ split_in = <<RemoteWork>> =>
              Meta(1).start_char = 0 /\ Meta(1).end_char = 33

\* C9 amended: as above, but the scenario's content has 32 characters, so
\* its single chunk has start_char 0 and end_char 32.
C9_SingleChunkEnd32 ==
    (split_pc = "done" /\ \A k \in DOMAIN split_in : Fits(split_in[k])) =>
        /\ Len(split_docs) = Len(split_in)
        /\ \A k \in DOMAIN split_in : SingleChunkOf(split_docs[k], split_in[k])
        /\ split_in = <<RemoteWork>> =>
              Meta(1).start_char = 0 /\ Meta(1).end_char = 32

C9_Witness ==
    /\ split_pc = "done"
    /\ split_in = <<RemoteWork>>
    /\ Len(split_docs) = 1
    /\ Meta(1).section_title = "Remote Work"

(***************************************************************************)
(* Index ingestion properties.                                             *)
(***************************************************************************)
\* C10: a call of add_chunks or initialize that reads a positive document
\* count from the index returns without calling add_documents and leaves
\* the stored documents exactly as they were.
C10_PopulatedIndexNoOp ==
    reported > 0 =>
        /\ idx_pc = "idle"
        /\ last_outcome = "skipped"
        /\ index_docs = idx_before
        /\ add_calls = calls_before
        /\ Len(index_docs) = reported

C10_Witness ==
    /\ reported > batch_size
    /\ last_outcome = "skipped"
    /\ ingest_calls >= 2
    /\ entry = "initialize"

\* C11: a call that found the index empty inserts its documents in order,
\* one add_documents call per batch of 100; when a batch raises, the call
\* ends there with the error, no later batch is attempted, and the index
\* holds exactly the documents of the batches inserted before it.
Committed == add_calls - calls_before

C11_BatchFailureAborts ==
    (idx_before = <<>> /\ last_outcome \in {"adding", "raised", "completed"}) =>
        /\ last_outcome = "adding" =>
              /\ idx_pc = "adding"
              /\ batch_pos = batch_size * Committed
              /\ index_docs = SubSeq(run_docs, 1, Min(batch_pos, Len(run_docs)))
        /\ last_outcome = "raised" =>
              /\ idx_pc = "idle"
              /\ Committed >= 1
              /\ batch_size * (Committed - 1) < Len(run_docs)
              /\ index_docs = SubSeq(run_docs, 1, batch_size * (Committed - 1))
        /\ last_outcome = "completed" =>
              /\ idx_pc = "idle"
              /\ index_docs = run_docs
              /\ batch_size * (Committed - 1) < Len(run_docs)
              /\ Len(run_docs) <= batch_size * Committed

\* The third batch of a 201-document run raised after two were inserted.
C11_Witness ==
    /\ last_outcome = "raised"
    /\ idx_before = <<>>
    /\ Committed = 3
    /\ Len(index_docs) = 2 * batch_size
    /\ Len(run_docs) > 2 * batch_size

(***************************************************************************)
(* Question-answering properties.                                          *)
(***************************************************************************)
Answered == chat_pc = "Idle" /\ outcome = "Answered"

\* C12: the confidence of an answered query follows the mean distance of
\* the matches the search returned: none gives low, a mean below 0.3 high,
\* from 0.3 up to but not including 0.5 medium, 0.5 or more low; a single
\* match at 0.1 gives high and at 0.6 low, a mean of exactly 0.3 medium and
\* of exactly 0.5 low.
C12_ConfidenceByMeanDistance ==
    Answered =>
        LET n == Len(search_results)
            total == SumDistances(search_results)
            confidence == result[1].confidence
        IN  /\ n = 0 => confidence = "low"
            /\ (n > 0 /\ total < 30 * n) => confidence = "high"
            /\ (n > 0 /\ 30 * n <= total /\ total < 50 * n) => confidence = "medium"
            /\ (n > 0 /\ total >= 50 * n) => confidence = "low"
            /\ (n = 1 /\ search_results[1].distance = 10) => confidence = "high"
            /\ (n = 1 /\ search_results[1].distance = 60) => confidence = "low"
            /\ (n > 0 /\ total = 30 * n) => confidence = "medium"
            /\ (n > 0 /\ total = 50 * n) => confidence = "low"

\* Two matches at 0.1 and 0.5: the mean is exactly 0.3.
C12_Witness ==
    /\ Answered
    /\ Len(search_results) = 2
    /\ search_results[1].distance = 10
    /\ search_results[2].distance = 50
    /\ result[1].confidence = "medium"

\* The positions of the denylist terms the lower-cased query contains.
Hits(q) == { k \in DOMAIN inappropriate_keywords : Contains(Lower(q), inappropriate_keywords[k]) }

FirstHit(q) == CHOOSE k \in Hits(q) : \A other \in Hits(q) : k <= other

\* C13: check_query_appropriateness refuses exactly the queries whose
\* lower-cased text contains a denylist term, the refusal names the first
\* such term in denylist order, and every other query is accepted with no
\* message; the bypass query is refused naming "bypass" and the core-values
\* query is accepted.
C13_GuardrailFirstMatch ==
    chat_calls > 0 =>
        /\ guard.appropriate = (Hits(query) = {})
        /\ Hits(query) = {} => guard.message = None
        /\ Hits(query) # {} =>
              guard.message = Some(RefusalMessage(inappropriate_keywords[FirstHit(query)]))
        /\ query = BypassQuery =>
              /\ ~guard.appropriate
              /\ guard.message = Some(RefusalMessage(<<"b", "y", "p", "a", "s", "s">>))
        /\ query = ValuesQuery => (guard.appropriate /\ guard.message = None)

\* "Confidential Hackathon" holds two terms; the refusal names "hack", the
\* earlier one in the denylist, although it comes later in the query.
C13_Witness ==
    /\ chat_calls > 0
    /\ query = JoinWords(<<<<"C", "o", "n", "f", "i", "d", "e", "n", "t", "i", "a", "l">>,
                           <<"H", "a", "c", "k", "a", "t", "h", "o", "n">>>>)
    /\ Cardinality(Hits(query)) = 2
    /\ guard.message = Some(RefusalMessage(<<"h", "a", "c", "k">>))

\* C14: every URL in the sources of an answered query is the source_url of
\* a match that vector_store.search returned for that query with
\* k = max_context_chunks.
C14_SourcesFromSearchMatches ==
    Answered =>
        \A i \in DOMAIN result[1].sources :
            \E j \in DOMAIN search_results :
                search_results[j].source_url = result[1].sources[i].url

\* A line that starts, whatever the case, with "sources:".
StartsWithSources(line) == StartsWith(Lower(line), SourcesLower)

\* The first line of text for which test holds, 0 if there is none.
FirstLine(lines, test(_)) ==
    IF \E n \in DOMAIN lines : test(lines[n])
    THEN CHOOSE n \in DOMAIN lines : test(lines[n]) /\ \A m \in 1..(n - 1) : ~test(lines[m])
    ELSE 0

\* C15 as stated: no line of the response starts with "sources:"; a
\* generated text with such a line is returned cut immediately before the
\* first one, and any other generated text is returned unchanged.
C15_TruncatedAtSourcesLine ==
    Answered =>
        LET lines == SplitLines(generated[1])
            n == FirstLine(lines, StartsWithSources)
            response == result[1].response
        IN  /\ \A m \in DOMAIN SplitLines(response) : ~StartsWithSources(SplitLines(response)[m])
            /\ n = 0 => response = generated[1]
            /\ n = 1 => response = <<>>
            /\ n > 1 => \/ response = JoinLines(SubSeq(lines, 1, n - 1))
                        \/ response = JoinLines(SubSeq(lines, 1, n - 1)) \o <<"\n">>

\* C15 as the code has it: no line of the response has "sources:" as its
\* first non-blank text; a generated text that contains "sources:" in any
\* case, anywhere, is returned cut before the first line whose first
\* non-blank text is "sources:" (not cut if there is no such line) and
\* stripped of leading and trailing whitespace; a generated text without
\* "sources:" is returned unchanged.
C15_TruncatedAndStripped ==
    Answered =>
        LET lines == SplitLines(generated[1])
            n == FirstLine(lines, IsSourcesLine)
            response == result[1].response
        IN  /\ \A m \in DOMAIN SplitLines(response) : ~IsSourcesLine(SplitLines(response)[m])
            /\ ~Contains(Lower(generated[1]), SourcesLower) => response = generated[1]
            /\ (Contains(Lower(generated[1]), SourcesLower) /\ n = 0) =>
                  response = Strip(generated[1])
            /\ n > 0 => response = Strip(JoinLines(SubSeq(lines, 1, n - 1)))

\* An answer followed by a blank line and an indented sources line.
C15_Witness ==
    /\ Answered
    /\ generated = Some(JoinLines(<<LnAnswer, LnBlank, LnIndented>>))
    /\ result[1].response = LnAnswer

\* The URLs of the retrieved documents, in the order extract_sources reads
\* them: the retriever's documents, then the search results.
RetrievedUrls ==
    [i \in DOMAIN source_documents |-> source_documents[i].metadata.source_url]
        \o [i \in DOMAIN search_results |-> search_results[i].source_url]

RetrievedTitles ==
    [i \in DOMAIN source_documents |-> source_documents[i].metadata.section_title]
        \o [i \in DOMAIN search_results |-> search_results[i].section_title]

FirstAt(urls, url) == CHOOSE n \in DOMAIN urls : urls[n] = url /\ \A m \in 1..(n - 1) : urls[m] # url

\* C16: the sources of a result hold each retrieved http URL once, in the
\* order in which the URLs first occur among the retrieved documents, each
\* with the section of its first occurrence.
C16_SourcesDeduplicated ==
    Answered =>
        LET sources == result[1].sources
        IN  /\ \A i, j \in DOMAIN sources : i # j => sources[i].url # sources[j].url
            /\ { sources[i].url : i \in DOMAIN sources }
                  = { url \in Range(RetrievedUrls) : StartsWithHttp(url) }
            /\ \A i, j \in DOMAIN sources :
                  i < j => FirstAt(RetrievedUrls, sources[i].url)
                              < FirstAt(RetrievedUrls, sources[j].url)
            /\ \A i \in DOMAIN sources :
                  sources[i].section_title
                      = RetrievedTitles[FirstAt(RetrievedUrls, sources[i].url)]

\* Two sections of the values page are retrieved around the remote page.
C16_Witness ==
    /\ Answered
    /\ Len(source_documents) = 3
    /\ source_documents[1] = DocCollab
    /\ source_documents[2] = DocRemote
    /\ source_documents[3] = DocValues
    /\ Len(result[1].sources) = 2
    /\ result[1].sources[1].section_title = "Collaboration"

\* C17: when a match the search returned for a URL carries a distance, the
\* sources entry of that URL carries the relevance score 1 - distance of
\* the first such match.
C17_RelevanceScoreKept ==
    Answered =>
        \A i \in DOMAIN result[1].sources :
            LET url == result[1].sources[i].url
            IN  (\E j \in DOMAIN search_results : search_results[j].source_url = url) =>
                    result[1].sources[i].relevance_score
                        = Some(100 - search_results[
                                   FirstAt([j \in DOMAIN search_results |->
                                               search_results[j].source_url], url)].distance)

\* The retrieval part of a call.
Retrieving == chat_pc \in {"Retrieving", "RetrievingDocs"}

\* A step of generate_response along Idle -> GuardrailCheck -> (Blocked |
\* Retrieving -> Composing -> (Answered | Errored)).
PipelineStep ==
    \/ chat_pc = "Idle" /\ chat_pc' = "Idle" /\ chat_calls' = chat_calls + 1
          /\ outcome' = "Blocked"
    \/ chat_pc = "Idle" /\ chat_pc' = "Retrieving" /\ chat_calls' = chat_calls + 1
    \/ Retrieving /\ Retrieving'
    \/ Retrieving /\ chat_pc' = "Composing"
    \/ chat_pc = "Composing" /\ chat_pc' = "Idle" /\ outcome' \in {"Answered", "Errored"}
    \/ Retrieving /\ chat_pc' = "Idle" /\ outcome' = "Errored"
    \/ UNCHANGED <<chat_pc, chat_calls, outcome, result>>

\* C18: every call of generate_response moves along the pipeline, ends in
\* one of Blocked, Answered and Errored and returns one result; no failure
\* of retrieval or generation leaves the call as an exception.
C18_EveryCallReturnsResult ==
    /\ [][PipelineStep]_vars
    /\ []((chat_pc = "Idle" /\ chat_calls > 0) =>
             (outcome \in {"Blocked", "Answered", "Errored"} /\ Len(result) = 1))

\* C19: a call invokes llm.invoke at most once; a call that reaches
\* Composing invokes it exactly once, and when that invocation fails the
\* call ends Errored there, without a second invocation.
C19_GenerationInvokedOnce ==
    /\ [](llm_calls <= 1)
    /\ [](Retrieving => llm_calls = 0)
    /\ [][chat_pc = "Composing" =>
             (llm_calls' = 1 /\ (outcome' = "Errored" => chat_pc' = "Idle"))]_vars
    /\ []((Answered \/ chat_pc = "Composing") => llm_calls = (IF Answered THEN 1 ELSE 0))

C19_Witness ==
    /\ chat_pc = "Idle"
    /\ outcome = "Errored"
    /\ llm_calls = 1
    /\ chat_calls = 2

\* C20: when llm.invoke raises, the call returns a result whose error field
\* holds the failure, with confidence low, no sources, context_used false
\* and the apology as response.
C20_GenerationFailureResult ==
    (outcome = "Errored" /\ llm_calls = 1) =>
        /\ Len(result) = 1
        /\ "error" \in DOMAIN result[1]
        /\ result[1].error \in Errors
        /\ result[1].confidence = "low"
        /\ result[1].sources = <<>>
        /\ result[1].context_used = FALSE
        /\ result[1].response = ErrorPrefix \o result[1].error \o ErrorSuffix

\* The search had found matches before the generation failed.
C20_Witness ==
    /\ outcome = "Errored"
    /\ llm_calls = 1
    /\ context_used
    /\ search_results # <<>>
    /\ result[1].context_used = FALSE
    /\ result[1].error = QuotaExceeded

\* C21: a query the guardrail rejects ends the call at once: neither the
\* index search nor the generation service is invoked for it, and the
\* result has guardrail_triggered true, the refusal message as response,
\* no sources, confidence low, context_used false and no error field.
C21_GuardrailShortCircuit ==
    outcome = "Blocked" =>
        /\ chat_pc = "Idle"
        /\ store_queries = 0
        /\ llm_calls = 0
        /\ prompt = None
        /\ Hits(query) # {}
        /\ Len(result) = 1
        /\ result[1].guardrail_triggered = TRUE
        /\ result[1].response = RefusalMessage(inappropriate_keywords[FirstHit(query)])
        /\ result[1].sources = <<>>
        /\ result[1].confidence = "low"
        /\ result[1].context_used = FALSE
        /\ "error" \notin DOMAIN result[1]

\* A rejected query asked of a populated index after an answered one.
C21_Witness ==
    /\ outcome = "Blocked"
    /\ chat_pc = "Idle"
    /\ collection # {}
    /\ conversation_history # <<>>
    /\ chat_calls = 2
    /\ result[1].guardrail_triggered

\* The index is empty and the search of the running call has returned.
EmptySearched == collection = {} /\ chat_pc \in {"RetrievingDocs", "Composing"}

\* C22: with an empty index the search returns no matches without querying
\* the store, and an allowed query is still answered: the call goes on to
\* the generation service, and the answered result has context_used false,
\* confidence low and no sources.
C22_EmptyIndexStillAnswers ==
    /\ [][(collection = {} /\ chat_pc = "Retrieving") =>
             (chat_pc' = "RetrievingDocs" /\ search_results' = <<>>
                  /\ store_queries' = 0 /\ outcome' = "Running")]_vars
    /\ [](EmptySearched => (search_results = <<>> /\ ~context_used /\ llm_calls = 0))
    /\ []((collection = {} /\ chat_pc = "Composing") =>
             \E text \in ChatTexts : ENABLED Generate(text))
    /\ []((collection = {} /\ Answered) =>
             /\ llm_calls = 1
             /\ Len(result) = 1
             /\ result[1].context_used = FALSE
             /\ result[1].confidence = "low"
             /\ result[1].sources = <<>>
             /\ result[1].guardrail_triggered = FALSE
             /\ "error" \notin DOMAIN result[1])

C22_Witness ==
    /\ collection = {}
    /\ Answered
    /\ llm_calls = 1
    /\ search_results = <<>>
    /\ result[1].response = LnAnswer
    /\ result[1].context_used = FALSE

\* The n most recent entries of a history, oldest first.
MostRecent(history, n) ==
    [i \in 1..n |-> history[Len(history) - n + i]]

\* C23: an answered query appends to the conversation history exactly the
\* pair (user: query, assistant: returned answer text), in that order, and
\* the chat_history handed to the generation service is rendered from the
\* at most 4 most recent entries recorded before the query, oldest first
\* (from none when the caller asked for no history).
C23_HistoryAppendedAndWindowed ==
    /\ [][outcome' = "Answered" /\ chat_pc = "Composing" =>
             /\ conversation_history'
                    = conversation_history \o
                          <<[role |-> "user", content |-> query],
                            [role |-> "assistant", content |-> result'[1].response]>>
             /\ conversation_history = history_before
             /\ result'[1].response = RemoveSources(generated'[1])]_vars
    /\ [](prompt # None =>
             /\ \E n \in 0..4 :
                    /\ n <= Len(history_before)
                    /\ prompt[1].chat_history
                           = HistoryLines(MostRecent(history_before, n))
             /\ include_history =>
                    prompt[1].chat_history
                        = HistoryLines(MostRecent(history_before,
                                                  IF Len(history_before) < 4
                                                  THEN Len(history_before) ELSE 4)))

\* The fourth answered query in a row: six entries were recorded before it
\* and only the last four were rendered.
C23_Witness ==
    /\ Answered
    /\ include_history
    /\ Len(history_before) = 6
    /\ Len(conversation_history) = 8
    /\ prompt[1].chat_history = HistoryLines(SubSeq(history_before, 3, 6))
    /\ prompt[1].chat_history # HistoryLines(history_before)

\* The fields every result carries.
CommonFields == {"response", "sources", "confidence", "context_used"}

\* A call has returned a result.
Returned == chat_pc = "Idle" /\ outcome \in {"Blocked", "Answered", "Errored"}

\* C24 as stated: every result returned by generate_response, in each of
\* the Blocked, Answered and Errored terminal states, carries the fields
\* response, sources, confidence (one of high, medium, low), context_used
\* and guardrail_triggered, and guardrail_triggered is true exactly for
\* Blocked results.
C24_AllResultsCarryGuardrailFlag ==
    Returned =>
        /\ Len(result) = 1
        /\ CommonFields \cup {"guardrail_triggered"} \subseteq DOMAIN result[1]
        /\ result[1].confidence \in {"high", "medium", "low"}
        /\ result[1].guardrail_triggered = (outcome = "Blocked")

\* C24, amended: every returned result carries response, sources,
\* confidence (one of high, medium, low) and context_used; Blocked and
\* Answered results also carry guardrail_triggered, true for Blocked and
\* false for Answered; an Errored result carries error and no
\* guardrail_triggered field.
C24_ResultFields ==
    Returned =>
        /\ Len(result) = 1
        /\ CommonFields \subseteq DOMAIN result[1]
        /\ result[1].confidence \in {"high", "medium", "low"}
        /\ outcome = "Blocked" =>
               /\ DOMAIN result[1] = CommonFields \cup {"guardrail_triggered"}
               /\ result[1].guardrail_triggered = TRUE
        /\ outcome = "Answered" =>
               /\ DOMAIN result[1] = CommonFields \cup {"guardrail_triggered"}
               /\ result[1].guardrail_triggered = FALSE
        /\ outcome = "Errored" =>
               DOMAIN result[1] = CommonFields \cup {"error"}

\* A failed call after an answered one: its result has an error field and
\* no guardrail_triggered field.
C24_Witness ==
    /\ Returned
    /\ outcome = "Errored"
    /\ answered = 1
    /\ "error" \in DOMAIN result[1]
    /\ "guardrail_triggered" \notin DOMAIN result[1]

\* A step in which a call ends Blocked or Errored.
EndsBlockedOrErrored ==
    \/ chat_calls' = chat_calls + 1 /\ outcome' = "Blocked"
    \/ chat_pc # "Idle" /\ chat_pc' = "Idle" /\ outcome' = "Errored"

\* C29: a query that ends Blocked or Errored leaves the conversation
\* history unchanged; the history is modified only by an answered query,
\* which appends two entries, and by clear_history, which empties it, so
\* its length is twice the number of answered queries since the last clear
\* and its entries alternate user, assistant.
C29_HistoryOnlyFromAnswers ==
    /\ [][EndsBlockedOrErrored => conversation_history' = conversation_history]_vars
    /\ [][conversation_history' # conversation_history =>
             \/ /\ chat_pc = "Composing"
                /\ outcome' = "Answered"
                /\ Len(conversation_history') = Len(conversation_history) + 2
                /\ SubSeq(conversation_history', 1, Len(conversation_history))
                       = conversation_history
             \/ /\ chat_pc = "Idle"
                /\ chat_calls' = chat_calls
                /\ conversation_history' = <<>>]_vars
    /\ [](Len(conversation_history) = 2 * answered)
    /\ [](\A i \in DOMAIN conversation_history :
             conversation_history[i].role
                 = IF i % 2 = 1 THEN "user" ELSE "assistant")

\* An answered query, then a refused one, then one whose generation fails:
\* the history still holds the one answered pair.
C29_Witness ==
    /\ chat_pc = "Idle"
    /\ outcome = "Errored"
    /\ llm_calls = 1
    /\ chat_calls >= 3
    /\ answered = 1
    /\ Len(conversation_history) = 2
    /\ conversation_history = history_before

\* The accumulations of at least `least` characters among those the walk
\* closed out, in order.
Sizeable(least) == SelectSeq(closeouts, LAMBDA c : Len(c.text) >= least)

\* The total length of the first n texts of a list of accumulations.
RECURSIVE TextLength(_, _)
TextLength(closed, n) ==
    IF n = 0 THEN 0 ELSE TextLength(closed, n - 1) + Len(closed[n].text)

\* The returned sections are the accumulations of at least `least`
\* characters, each starting where the ones emitted before it end.
EmittedExactly(least) ==
    LET emitted == Sizeable(least)
    IN  emitted # <<>> =>
            /\ Len(sections) = Len(emitted)
            /\ \A i \in DOMAIN emitted :
                  /\ sections[i].section_title = emitted[i].title
                  /\ sections[i].content = emitted[i].text
                  /\ sections[i].start_char = TextLength(emitted, i - 1)
                  /\ sections[i].end_char = TextLength(emitted, i)

\* C25 as stated: when a section is closed out, a Section is emitted if and
\* only if its accumulated text has at least 50 characters; text of exactly
\* 50 characters is emitted and advances the running offset by 50.
C25_EmittedFromFifty ==
    ext_pc = "done" => EmittedExactly(MinSectionLen)

\* C25, amended: when a section is closed out, a Section is emitted if and
\* only if its accumulated text has more than 50 characters; text of
\* exactly 50 characters is dropped and does not advance the running
\* offset.
C25_EmittedAboveFifty ==
    ext_pc = "done" =>
        /\ EmittedExactly(MinSectionLen + 1)
        /\ (Sizeable(MinSectionLen + 1) = <<>> /\ sections # <<>>) =>
               sections[1].section_title = "Main Content"

\* An accumulation of exactly 50 characters closed out at a heading and
\* dropped; the section after it starts at offset 0.
C25_Witness ==
    /\ ext_pc = "done"
    /\ Len(closeouts) = 2
    /\ Len(closeouts[1].text) = MinSectionLen
    /\ Len(sections) = 1
    /\ sections[1].section_title = closeouts[2].title
    /\ sections[1].start_char = 0

\* The element at position i of the page is a heading outside navigation,
\* header, footer and aside.
IsHeading(i) ==
    page.elements[i].name \in HeadingTags /\ ~page.elements[i].in_nav

\* The title of the section open at position i when every heading starts a
\* section: the text of the nearest heading before i.
TitleAt(i) ==
    LET before == { j \in 1..(i - 1) : IsHeading(j) }
    IN  IF before = {} THEN "Introduction"
        ELSE clean_text(page.elements[
                 CHOOSE j \in before : \A other \in before : other <= j].raw)

\* C26: every heading element of the walk outside navigation, header,
\* footer and aside, whatever the length of its text, closes the current
\* section and starts one titled with its text, so a text element is never
\* attributed to the section of an earlier heading than the nearest one
\* before it.
C26_EveryHeadingStartsSection ==
    ext_pc = "done" =>
        \A c \in DOMAIN closeouts :
            \A i \in closeouts[c].members : closeouts[c].title = TitleAt(i)

\* The cleaned text of the content root, line 116.
AllText == clean_text(RootText(page.elements) \o page.loose)

\* The element walk emitted no section.
WalkEmittedNone == \A c \in DOMAIN closeouts : ~(Len(closeouts[c].text) > MinSectionLen)

\* The single section covering all text of the content root.
IsMainContent ==
    /\ Len(sections) = 1
    /\ sections[1].section_title = "Main Content"
    /\ sections[1].source_url = PageUrl
    /\ sections[1].start_char = 0
    /\ sections[1].end_char = Len(AllText)
    /\ sections[1].content = AllText

\* C27 as stated: whenever the element walk emits no section,
\* extract_sections returns exactly one Section titled "Main Content"
\* covering all text of the content root, with start_char 0 and end_char
\* len(text), for every length of that text.
C27_FallbackAlways ==
    (ext_pc = "done" /\ WalkEmittedNone) => IsMainContent

\* C27, amended: whenever the element walk emits no section,
\* extract_sections returns exactly one Section titled "Main Content"
\* covering all text of the content root, with start_char 0 and end_char
\* len(text), if that text is longer than 50 characters, and no section
\* otherwise.
C27_FallbackAboveFifty ==
    (ext_pc = "done" /\ WalkEmittedNone) =>
        IF Len(AllText) > MinSectionLen THEN IsMainContent ELSE sections = <<>>

\* The walk closed out only short accumulations and the text of the whole
\* content root is long enough for the fallback.
C27_Witness ==
    /\ ext_pc = "done"
    /\ closeouts # <<>>
    /\ WalkEmittedNone
    /\ IsMainContent
    /\ sections[1].end_char > MinSectionLen

\* The successful fetches of the current run, in the order they were made.
OkFetches == SelectSeq(fetch_log, LAMBDA e : e.ok)

\* List a holds elements of list b only, in the order b has them.
InOrderOf(a, b) ==
    /\ Range(a) \subseteq Range(b)
    /\ \A p, q \in DOMAIN a : p < q => FirstAt(b, a[p]) < FirstAt(b, a[q])

\* C28: the list a discovery run returns holds exactly the URLs fetched
\* successfully in that run (as a set it equals visited_urls, which is
\* reset when the run starts), level by level: every URL fetched at depth d
\* precedes every URL fetched at a greater depth, and within a level the
\* URLs keep the order of the frontier.
C28_ReturnedListLevelOrder ==
    /\ [][runs' = runs + 1 => (visited_urls' = {} /\ all_urls' = <<>>)]_vars
    /\ [](\A k \in DOMAIN stack :
             ~stack[k].returning =>
                 InOrderOf(stack[k].urls_to_scrape, stack[k].start_urls))
    /\ [](crawl_pc = "done" =>
             /\ Range(all_urls) = visited_urls
             /\ Len(all_urls) = Cardinality(visited_urls)
             /\ all_urls = [i \in DOMAIN OkFetches |-> OkFetches[i].url]
             /\ \A i, j \in DOMAIN OkFetches :
                   i < j => OkFetches[i].depth <= OkFetches[j].depth)

\* A second run that returned URLs of three levels and had a failed fetch.
C28_Witness ==
    /\ crawl_pc = "done"
    /\ runs = 2
    /\ Len(all_urls) >= 3
    /\ \E e \in DOMAIN fetch_log : ~fetch_log[e].ok
    /\ \E e \in DOMAIN fetch_log : fetch_log[e].ok /\ fetch_log[e].depth = 2

\* C30: add_chunks inserts documents only if the index is empty at the
\* time of the call; so once a run has left the index partly filled, every
\* later add_chunks or initialize call inserts nothing and the index keeps
\* its document count.
C30_InsertsOnlyIntoEmptyIndex ==
    /\ [](idx_pc = "adding" => idx_before = <<>>)
    /\ [][(index_docs # <<>> /\ idx_pc = "idle") => index_docs' = index_docs]_vars
    /\ [][Len(index_docs') > Len(index_docs) => idx_before = <<>>]_vars
====
